---- MODULE Spec2Model ----
(***************************************************************************)
(* TempIdentity: provider registry, provider adapters (Mail.gw email,      *)
(* TextVerified SMS), the bounded poll/sleep wait loops and the            *)
(* orchestration facade, modelled as state machines.                       *)
(***************************************************************************)
EXTENDS Integers, Sequences, FiniteSets, TLC

(***************************************************************************)
(* Python values                                                           *)
(***************************************************************************)
\* Python's None
None == "None"

\* a provider configuration dict, as a set of <<key, value>> items
EmptyConfig == {}
KeyConfig == {<<"api_key", "test-api-key">>}
Configs == {EmptyConfig, KeyConfig}

\* an optional `config` argument: omitted (None) or a dict
NoConfigArg == [given |-> FALSE, dict |-> EmptyConfig]
ConfigArgs == {NoConfigArg} \cup {[given |-> TRUE, dict |-> d] : d \in Configs}

\* dict.get(key, default)
DictGet(d, key, default) ==
    IF \E kv \in d : kv[1] = key
    THEN (CHOOSE kv \in d : kv[1] = key)[2]
    ELSE default

(***************************************************************************)
(* Provider classes                                                        *)
(***************************************************************************)
\* classes exported by the built-in provider packages
BuiltinEmailClasses == {"MailGwProvider"}
BuiltinSmsClasses == {"TextVerifiedProvider"}

\* classes a caller registers explicitly (the test doubles and one class
\* that declares the built-in name "mail.gw")
ExplicitEmailClasses == {"MockEmailProvider", "AltMailGwProvider"}
ExplicitSmsClasses == {"MockSMSProvider"}

\* entry points of the group 'tempidentity.providers' and what the
\* register_providers hook of each registers on the registry; the two
\* plugin classes declare the same name, one in each kind
EntryPoints == {"ep_email", "ep_sms"}
PluginEmailClasses(ep) == IF ep = "ep_email" THEN {"PluginEmailProvider"} ELSE {}
PluginSmsClasses(ep) == IF ep = "ep_sms" THEN {"PluginSMSProvider"} ELSE {}

EmailClasses ==
    BuiltinEmailClasses \cup ExplicitEmailClasses
        \cup UNION {PluginEmailClasses(ep) : ep \in EntryPoints}
SmsClasses ==
    BuiltinSmsClasses \cup ExplicitSmsClasses
        \cup UNION {PluginSmsClasses(ep) : ep \in EntryPoints}

\* the class attribute `name` of a provider class
ClassName(c) ==
    CASE c = "MailGwProvider" -> "mail.gw"
      [] c = "AltMailGwProvider" -> "mail.gw"
      [] c = "MockEmailProvider" -> "mock_email"
      [] c = "PluginEmailProvider" -> "plugin"
      [] c = "TextVerifiedProvider" -> "textverified"
      [] c = "MockSMSProvider" -> "mock_sms"
      [] c = "PluginSMSProvider" -> "plugin"

\* the class attribute `requires_api_key`: True in SMSProvider, which
\* TextVerifiedProvider repeats, False in EmailProvider and MailGwProvider;
\* the email class of the plugin sets it
requires_api_key(provider_class) ==
    provider_class \in SmsClasses \cup {"PluginEmailProvider"}

\* the class attribute `display_name`; the test doubles and the plugin
\* classes declare their own
DisplayName(c) ==
    CASE c = "MailGwProvider" -> "Mail.gw"
      [] c = "AltMailGwProvider" -> "Mail.gw"
      [] c = "MockEmailProvider" -> "Mock Email"
      [] c = "PluginEmailProvider" -> "Plugin Email"
      [] c = "TextVerifiedProvider" -> "TextVerified"
      [] c = "MockSMSProvider" -> "Mock SMS"
      [] c = "PluginSMSProvider" -> "Plugin SMS"

\* get_setup_fields of a class whose test reads the flag of the base class
\* SMSProvider
get_setup_fields_of_base(cls) ==
    IF TRUE
    THEN <<[name |-> "api_key",
            display_name |-> "API Key",
            type |-> "password",
            required |-> TRUE,
            help_text |-> <<"API key for ", DisplayName(cls)>>]>>
    ELSE <<>>

\* EmailProvider.get_setup_fields / SMSProvider.get_setup_fields
get_setup_fields(cls) ==
    IF requires_api_key(cls)
    THEN <<[name |-> "api_key",
            display_name |-> "API Key",
            type |-> "password",
            required |-> TRUE,
            help_text |-> <<"API key for ", DisplayName(cls)>>]>>
    ELSE <<>>

\* provider names a caller may ask for
Names ==
    {"mail.gw", "textverified", "mock_email", "mock_sms", "plugin",
     "non_existent"}

\* provider_class(config): the base __init__ keeps `config or {}`
NewInstance(provider_class, config) ==
    [cls |-> provider_class,
     config |-> IF config.given THEN config.dict ELSE EmptyConfig]

\* None where a provider instance is expected
NoInstance == [cls |-> None, config |-> EmptyConfig]

\* the `config` arguments the registry is called with
RegistryConfigArgs == {NoConfigArg, [given |-> TRUE, dict |-> KeyConfig]}

(***************************************************************************)
(* Bounds                                                                  *)
(***************************************************************************)
\* number of built-in scans a behaviour may run
MaxScans == 2
\* number of verification ids the upstream issues
MaxAllocs == 2
\* number of bearer tokens the upstream issues
MaxTokens == 1
\* number of messages delivered to the mailbox
MaxMessages == 2
\* largest timeout and check_interval a wait is called with, in seconds
MaxTimeout == 3
MaxInterval == 2
\* longest time one poll (its upstream requests) takes, in seconds
MaxPollTime == 1
\* number of wait calls of a behaviour
MaxWaits == 1
\* items create_temp_sms may add to the SMS history
MaxHistory == 1

VARIABLES
    \* ProviderRegistry
    email_providers,    \* name -> class (None: no entry)
    sms_providers,      \* name -> class (None: no entry)
    initialized,        \* ProviderRegistry._initialized
    \* the environment of the registry
    email_import_ok,    \* import tempidentity.providers.email succeeds
    sms_import_ok,      \* import tempidentity.providers.sms succeeds
    pkg_resources_ok,   \* import pkg_resources succeeds
    plugin_load_ok,     \* entry point -> its load() and hook succeed
    \* observation of the registry
    reg_op,             \* the last registry operation and its argument
    reg_ret,            \* the value it returned
    last_email_reg,     \* name -> class last passed to register_email_provider
    last_sms_reg,       \* name -> class last passed to register_sms_provider
    explicit_email,     \* email classes registered by a caller
    explicit_sms,       \* SMS classes registered by a caller
    scans,              \* runs of _discover_builtin_providers
    lazy_scans,         \* of these, the runs started by _ensure_initialized
    auto_runs,          \* runs of auto_discover_providers
    \* the SMS provider instance (TextVerifiedProvider) and its upstream
    sms_provider,       \* its fields verification_id, phone_number, service,
                        \* api_key
    up_active,          \* verification ids allocated and not cancelled upstream
    up_code,            \* verification id -> the code received (None: none yet)
    up_issued,          \* number of verification ids the upstream has issued
    \* observation of the SMS provider
    sms_op,             \* the last SMS operation and its arguments
    sms_ret,            \* what it returned, or that it raised
    sms_pre,            \* the instance as it was when the operation started
    sms_resp,           \* the upstream's answer to its request
    sms_requests,       \* the number of upstream requests it sent
    \* the email provider instance (MailGwProvider) and its upstream
    email_provider,     \* its fields email, password, token, domain
    up_accounts,        \* <<address, password>> of the accounts created
    up_tokens,          \* bearer tokens the upstream accepts
    up_tokens_issued,   \* number of tokens the upstream has issued
    up_mailbox,         \* message ids in the mailbox, newest first
    up_delivered,       \* number of messages ever delivered to the mailbox
    \* observation of the email provider
    email_op,           \* the last email operation and its arguments
    email_ret,          \* what it returned, or that it raised
    email_pre,          \* the instance as it was when the operation started
    email_calls,        \* the upstream requests it sent, in order
    \* the wait loop in progress (wait_for_sms / wait_for_messages)
    now,                \* time.time()
    wait_pc,            \* "idle", "loop" (at the while test), "sleep",
                        \* "returned", "raised"
    wait_kind,          \* "sms" or "messages"
    start_time,         \* its local start_time
    timeout,            \* its argument timeout
    check_interval,     \* its argument check_interval
    initial_count,      \* wait_for_messages: len(initial_messages)
    wait_ret,           \* what the wait returned
    \* observation of the wait loop
    poll_log,           \* the polls of the while loop: elapsed time at the
                        \* call and what came back (the code, the number of
                        \* messages, -1 or None when the poll raised)
    wait_sleeps,        \* number of time.sleep calls
    wait_calls,         \* number of wait calls started
    mailbox_at_call,    \* the mailbox as it was when wait_for_messages was
                        \* called
    \* --- the facade (core.py) ---
    app_config,         \* what load_config reads from the configuration file
    sms_history,        \* the items of sms_history.json, newest first
    email_history,      \* the items of email_history.json, newest first
    facade_pc,          \* "idle", or the facade function that is running
    facade_op,          \* the last facade call and its arguments
    facade_ret,         \* what it returned, or that it raised
    facade_allocation,  \* the allocation of the last create_temp_sms that
                        \* succeeded: its verification id and provider name
    facade_code_ready,  \* the code the upstream held for that allocation
                        \* when wait_for_sms_code was entered (None: none)
    facade_invoked      \* the provider operations the last facade call has
                        \* invoked, in order

reg_vars ==
    <<email_providers, sms_providers, initialized, email_import_ok,
      sms_import_ok, pkg_resources_ok, plugin_load_ok, reg_op, reg_ret,
      last_email_reg, last_sms_reg, explicit_email, explicit_sms, scans,
      lazy_scans, auto_runs>>

sms_vars ==
    <<sms_provider, up_active, up_code, up_issued, sms_op, sms_ret, sms_pre,
      sms_resp, sms_requests>>

email_vars ==
    <<email_provider, up_accounts, up_tokens, up_tokens_issued, up_mailbox,
      up_delivered, email_op, email_ret, email_pre, email_calls>>

wait_vars ==
    <<now, wait_pc, wait_kind, start_time, timeout, check_interval,
      initial_count, wait_ret, poll_log, wait_sleeps, wait_calls,
      mailbox_at_call>>

facade_vars ==
    <<app_config, sms_history, email_history, facade_pc, facade_op,
      facade_ret, facade_allocation, facade_code_ready, facade_invoked>>

vars == <<reg_vars, sms_vars, email_vars, wait_vars, facade_vars>>

\* what an operation of one component leaves alone
non_reg_vars == <<sms_vars, email_vars, wait_vars, facade_vars>>
non_sms_vars == <<reg_vars, email_vars, wait_vars, facade_vars>>
non_email_vars == <<reg_vars, sms_vars, wait_vars, facade_vars>>

(***************************************************************************)
(* ProviderRegistry                                                        *)
(***************************************************************************)
EmptyMapping == [n \in Names |-> None]

\* the dict a mapping stands for: its entries
Entries(mapping) == {<<n, mapping[n]>> : n \in {m \in Names : mapping[m] # None}}

\* a registration that keeps the first binding of a name
register_provider_first_wins(providers, provider_class) ==
    IF providers[ClassName(provider_class)] = None
    THEN [providers EXCEPT ![ClassName(provider_class)] = provider_class]
    ELSE providers

\* register_email_provider / register_sms_provider: upsert keyed by the
\* declared name
register_provider(providers, provider_class) ==
    [providers EXCEPT ![ClassName(provider_class)] = provider_class]

\* registering each class of a set (the classes of one package or one hook
\* declare distinct names)
RECURSIVE register_all(_, _)
register_all(providers, classes) ==
    IF classes = {} THEN providers
    ELSE LET c == CHOOSE x \in classes : TRUE
         IN register_all(register_provider(providers, c), classes \ {c})

\* _discover_builtin_providers: one try block around both imports
discover_builtin_email(providers) ==
    IF email_import_ok
    THEN register_all(providers, BuiltinEmailClasses)
    ELSE providers

\* a scan whose SMS import has a try block of its own
discover_builtin_sms_own_try(providers) ==
    IF sms_import_ok
    THEN register_all(providers, BuiltinSmsClasses)
    ELSE providers

discover_builtin_sms(providers) ==
    IF email_import_ok /\ sms_import_ok
    THEN register_all(providers, BuiltinSmsClasses)
    ELSE providers

\* an _ensure_initialized that scans only while the mapping is empty
ensure_initialized_email_if_empty(providers) ==
    IF ~initialized /\ providers = EmptyMapping
    THEN discover_builtin_email(providers)
    ELSE providers

\* _ensure_initialized
ensure_initialized_email(providers) ==
    IF ~initialized THEN discover_builtin_email(providers) ELSE providers

ensure_initialized_sms(providers) ==
    IF ~initialized THEN discover_builtin_sms(providers) ELSE providers

\* an _ensure_initialized that leaves the flag as it is
ensure_initialized_flag_unset == FALSE

\* the value _ensure_initialized assigns to _initialized after the scan
ensure_initialized_flag == TRUE

\* a discovery that the first failing entry point aborts, the failing one
\* being met first
LoadedEntryPointsUntilFailure ==
    IF pkg_resources_ok /\ \A ep \in EntryPoints : plugin_load_ok[ep]
    THEN EntryPoints
    ELSE {}

\* the entry points whose hook runs in auto_discover_providers
LoadedEntryPoints ==
    IF pkg_resources_ok THEN {ep \in EntryPoints : plugin_load_ok[ep]} ELSE {}

\* auto_discover_providers: built-ins, then every entry point that loads
auto_discover_email(providers) ==
    register_all(discover_builtin_email(providers),
                 UNION {PluginEmailClasses(ep) : ep \in LoadedEntryPoints})

auto_discover_sms(providers) ==
    register_all(discover_builtin_sms(providers),
                 UNION {PluginSmsClasses(ep) : ep \in LoadedEntryPoints})

\* get_email_provider / get_sms_provider: dict.get(name)
get_provider(providers, name) == providers[name]

\* create_email_provider / create_sms_provider
create_provider(providers, name, config) ==
    LET provider_class == get_provider(providers, name)
    IN IF provider_class # None
       THEN NewInstance(provider_class, config)
       ELSE NoInstance

(***************************************************************************)
(* Observation of registrations, kept apart from the registry's own code   *)
(***************************************************************************)
LogRegistrations(log, classes) ==
    [n \in Names |->
        IF \E c \in classes : ClassName(c) = n
        THEN CHOOSE c \in classes : ClassName(c) = n
        ELSE log[n]]

\* the classes a run of the built-in scan passes to register_*
ScannedEmail == IF email_import_ok THEN BuiltinEmailClasses ELSE {}
ScannedSms == IF email_import_ok /\ sms_import_ok THEN BuiltinSmsClasses ELSE {}

\* what a lookup does to the registry and its observation
LookupEffect(op, ret_email, ret_sms, is_email) ==
    /\ initialized \/ scans < MaxScans
    /\ email_providers' = ensure_initialized_email(email_providers)
    /\ sms_providers' = ensure_initialized_sms(sms_providers)
    /\ initialized' = (initialized \/ ensure_initialized_flag)
    /\ last_email_reg' =
          IF initialized THEN last_email_reg
          ELSE LogRegistrations(last_email_reg, ScannedEmail)
    /\ last_sms_reg' =
          IF initialized THEN last_sms_reg
          ELSE LogRegistrations(last_sms_reg, ScannedSms)
    /\ scans' = IF initialized THEN scans ELSE scans + 1
    /\ lazy_scans' = IF initialized THEN lazy_scans ELSE lazy_scans + 1
    /\ reg_op' = op
    /\ reg_ret' = IF is_email THEN ret_email ELSE ret_sms
    /\ UNCHANGED <<email_import_ok, sms_import_ok, pkg_resources_ok,
                   plugin_load_ok, explicit_email, explicit_sms, auto_runs>>

\* a lookup made on the registry directly
Lookup(op, ret_email, ret_sms, is_email) ==
    /\ LookupEffect(op, ret_email, ret_sms, is_email)
    /\ UNCHANGED non_reg_vars

RegInit ==
    /\ email_providers = EmptyMapping
    /\ sms_providers = EmptyMapping
    /\ initialized = FALSE
    /\ email_import_ok \in BOOLEAN
    /\ sms_import_ok \in BOOLEAN
    /\ pkg_resources_ok \in BOOLEAN
    /\ plugin_load_ok \in [EntryPoints -> BOOLEAN]
    /\ reg_op = <<"__init__">>
    /\ reg_ret = None
    /\ last_email_reg = EmptyMapping
    /\ last_sms_reg = EmptyMapping
    /\ explicit_email = {}
    /\ explicit_sms = {}
    /\ scans = 0
    /\ lazy_scans = 0
    /\ auto_runs = 0

\* the registry of a process in which every import succeeds
RegIdle ==
    /\ RegInit
    /\ email_import_ok /\ sms_import_ok /\ pkg_resources_ok
    /\ \A ep \in EntryPoints : plugin_load_ok[ep]

RegisterEmailProvider(c) ==
    /\ email_providers' = register_provider(email_providers, c)
    /\ last_email_reg' = LogRegistrations(last_email_reg, {c})
    /\ explicit_email' = explicit_email \cup {c}
    /\ reg_op' = <<"register_email_provider", c>>
    /\ reg_ret' = None
    /\ UNCHANGED <<sms_providers, initialized, email_import_ok, sms_import_ok,
                   pkg_resources_ok, plugin_load_ok, last_sms_reg,
                   explicit_sms, scans, lazy_scans, auto_runs>>
    /\ UNCHANGED non_reg_vars

\* a register_sms_provider of a registry that keeps one mapping for both
\* kinds
RegisterSmsProviderOneNamespace(c) ==
    /\ sms_providers' = register_provider(sms_providers, c)
    /\ last_sms_reg' = LogRegistrations(last_sms_reg, {c})
    /\ explicit_sms' = explicit_sms \cup {c}
    /\ reg_op' = <<"register_sms_provider", c>>
    /\ reg_ret' = None
    /\ email_providers' = register_provider(email_providers, c)
    /\ UNCHANGED <<initialized, email_import_ok,
                   sms_import_ok, pkg_resources_ok, plugin_load_ok,
                   last_email_reg, explicit_email, scans, lazy_scans,
                   auto_runs>>
    /\ UNCHANGED non_reg_vars

RegisterSmsProvider(c) ==
    /\ sms_providers' = register_provider(sms_providers, c)
    /\ last_sms_reg' = LogRegistrations(last_sms_reg, {c})
    /\ explicit_sms' = explicit_sms \cup {c}
    /\ reg_op' = <<"register_sms_provider", c>>
    /\ reg_ret' = None
    /\ UNCHANGED <<email_providers, initialized, email_import_ok,
                   sms_import_ok, pkg_resources_ok, plugin_load_ok,
                   last_email_reg, explicit_email, scans, lazy_scans,
                   auto_runs>>
    /\ UNCHANGED non_reg_vars

GetEmailProvider(name) ==
    Lookup(<<"get_email_provider", name>>,
           get_provider(email_providers', name), None, TRUE)

GetSmsProvider(name) ==
    Lookup(<<"get_sms_provider", name>>,
           None, get_provider(sms_providers', name), FALSE)

GetAllEmailProviders ==
    Lookup(<<"get_all_email_providers">>, Entries(email_providers'), None, TRUE)

GetAllSmsProviders ==
    Lookup(<<"get_all_sms_providers">>, None, Entries(sms_providers'), FALSE)

CreateEmailProvider(name, config) ==
    Lookup(<<"create_email_provider", name>>,
           create_provider(email_providers', name, config), None, TRUE)

CreateSmsProvider(name, config) ==
    Lookup(<<"create_sms_provider", name>>,
           None, create_provider(sms_providers', name, config), FALSE)

AutoDiscoverProviders ==
    /\ scans < MaxScans
    /\ email_providers' = auto_discover_email(email_providers)
    /\ sms_providers' = auto_discover_sms(sms_providers)
    /\ last_email_reg' =
          LogRegistrations(
              LogRegistrations(last_email_reg, ScannedEmail),
              UNION {PluginEmailClasses(ep) : ep \in LoadedEntryPoints})
    /\ last_sms_reg' =
          LogRegistrations(
              LogRegistrations(last_sms_reg, ScannedSms),
              UNION {PluginSmsClasses(ep) : ep \in LoadedEntryPoints})
    /\ scans' = scans + 1
    /\ auto_runs' = auto_runs + 1
    /\ reg_op' = <<"auto_discover_providers">>
    /\ reg_ret' = None
    /\ UNCHANGED <<initialized, email_import_ok, sms_import_ok,
                   pkg_resources_ok, plugin_load_ok, explicit_email,
                   explicit_sms, lazy_scans>>
    /\ UNCHANGED non_reg_vars

RegNext ==
    \/ \E c \in ExplicitEmailClasses : RegisterEmailProvider(c)
    \/ \E c \in ExplicitSmsClasses : RegisterSmsProvider(c)
    \/ \E n \in Names : GetEmailProvider(n)
    \/ \E n \in Names : GetSmsProvider(n)
    \/ GetAllEmailProviders
    \/ GetAllSmsProviders
    \/ \E n \in Names, cfg \in RegistryConfigArgs : CreateEmailProvider(n, cfg)
    \/ \E n \in Names, cfg \in RegistryConfigArgs : CreateSmsProvider(n, cfg)
    \/ AutoDiscoverProviders


(***************************************************************************)
(* Upstream HTTP                                                           *)
(***************************************************************************)
\* Python truthiness of an optional string
Falsy(x) == x \in {None, ""}

\* status codes the upstreams answer with
Statuses == {200, 201, 401}

\* the fields of a JSON body that the adapters read; None: the key is absent
NoData == [id |-> None, number |-> None, code |-> None, token |-> None,
           domain |-> None, messages |-> <<>>]

\* requests.<verb>() raised (connection error, timeout)
NetworkError == [net_ok |-> FALSE, status |-> 0, json_ok |-> FALSE, data |-> NoData]
\* a response whose body is not JSON: response.json() raises
NotJson(status) == [net_ok |-> TRUE, status |-> status, json_ok |-> FALSE, data |-> NoData]
\* a response with a JSON object body
Json(status, data) == [net_ok |-> TRUE, status |-> status, json_ok |-> TRUE, data |-> data]

\* what an operation hands back: a value, or an exception crossing it
Returned(value) == [raised |-> FALSE, value |-> value]
Raised == [raised |-> TRUE, value |-> None]
\* the operation returned this value
Returns(ret, value) == ~ret.raised /\ ret.value = value

(***************************************************************************)
(* TextVerified upstream                                                   *)
(***************************************************************************)
VerificationIdTable == <<"v1", "v2", "v3", "v4">>
PhoneNumberTable == <<"+15550001111", "+15550002222", "+15550003333", "+15550004444">>
VerificationIds == {VerificationIdTable[k] : k \in 1..MaxAllocs}
PhoneNumberOf(id) ==
    PhoneNumberTable[CHOOSE k \in 1..MaxAllocs : VerificationIdTable[k] = id]

Codes == {"123456"}
ServiceIds == {"svc1", "svc2"}

\* answers to POST /Verifications: an allocation, a 200 body lacking id or
\* number, or a failure
PostVerificationResponses ==
    {NetworkError, NotJson(200)}
        \cup {NotJson(st) : st \in Statuses \ {200}}
        \cup {Json(200, [NoData EXCEPT !.number = "+15550009999"])}
        \cup (IF up_issued < MaxAllocs
              THEN LET id == VerificationIdTable[up_issued + 1]
                   IN {Json(200, [NoData EXCEPT !.id = id,
                                                !.number = PhoneNumberOf(id)]),
                       Json(200, [NoData EXCEPT !.id = id])}
              ELSE {})

\* answers to GET /Verifications/{id}: before a code has arrived the code
\* key is absent or empty
GetVerificationResponses(id) ==
    {NetworkError, NotJson(200)}
        \cup {NotJson(st) : st \in Statuses \ {200}}
        \cup (IF id \in VerificationIds /\ up_code[id] # None
              THEN {Json(200, [NoData EXCEPT !.code = up_code[id]])}
              ELSE {Json(200, NoData), Json(200, [NoData EXCEPT !.code = ""])})

\* answers to DELETE /Verifications/{id}
DeleteVerificationResponses(id) ==
    {NetworkError} \cup {NotJson(st) : st \in Statuses}

\* answers to GET /Services
GetServicesResponses ==
    {NetworkError, NotJson(200), Json(200, NoData)}
        \cup {NotJson(st) : st \in Statuses \ {200}}

\* the upstream after it has answered POST /Verifications
UpstreamAfterPost(resp) ==
    IF resp.net_ok /\ resp.status = 200 /\ resp.json_ok /\ resp.data.id # None
    THEN [active |-> up_active \cup {resp.data.id}, issued |-> up_issued + 1]
    ELSE [active |-> up_active, issued |-> up_issued]

\* the upstream after it has answered DELETE /Verifications/{id}
UpstreamAfterDelete(id, resp) ==
    IF resp.net_ok /\ resp.status = 200 THEN up_active \ {id} ELSE up_active

(***************************************************************************)
(* TextVerifiedProvider                                                    *)
(* Each operation maps the instance and the upstream's answer to the       *)
(* instance afterwards, the result and the number of requests sent.        *)
(***************************************************************************)
\* SMSProvider.__init__ and TextVerifiedProvider.__init__
TextVerifiedProvider_init(config) ==
    [verification_id |-> None,
     phone_number |-> None,
     service |-> None,
     api_key |-> DictGet(config, "api_key", "")]

Outcome(self, ret, requests) == [self |-> self, ret |-> ret, requests |-> requests]

\* get_available_services
get_available_services(self, resp) ==
    IF ~resp.net_ok THEN Outcome(self, Raised, 1)
    ELSE IF resp.status = 200
    THEN IF resp.json_ok
         THEN Outcome(self, Returned("services"), 1)
         ELSE Outcome(self, Raised, 1)
    ELSE Outcome(self, Returned("[]"), 1)

\* create_number
\* a create_number that keeps the allocation the instance already holds
create_number_keeps_first(self, service_name, resp) ==
    IF ~resp.net_ok THEN Outcome(self, Raised, 1)
    ELSE IF resp.status = 200
    THEN IF resp.json_ok
         THEN Outcome(IF Falsy(self.verification_id)
                      THEN [self EXCEPT !.verification_id = resp.data.id,
                                        !.phone_number = resp.data.number,
                                        !.service = service_name]
                      ELSE self,
                      Returned(<<TRUE, resp.data.number>>), 1)
         ELSE Outcome(self, Raised, 1)
    ELSE Outcome(self, Returned(<<FALSE, "">>), 1)

\* create_number
create_number(self, service_name, resp) ==
    IF ~resp.net_ok THEN Outcome(self, Raised, 1)
    ELSE IF resp.status = 200
    THEN IF resp.json_ok
         THEN Outcome([self EXCEPT !.verification_id = resp.data.id,
                                   !.phone_number = resp.data.number,
                                   !.service = service_name],
                      Returned(<<TRUE, resp.data.number>>), 1)
         ELSE Outcome(self, Raised, 1)
    ELSE Outcome(self, Returned(<<FALSE, "">>), 1)

\* check_sms
check_sms(self, resp) ==
    IF Falsy(self.verification_id) THEN Outcome(self, Returned(None), 0)
    ELSE IF ~resp.net_ok THEN Outcome(self, Raised, 1)
    ELSE IF resp.status = 200
    THEN IF resp.json_ok
         THEN Outcome(self, Returned(resp.data.code), 1)
         ELSE Outcome(self, Raised, 1)
    ELSE Outcome(self, Returned(None), 1)

\* a cancel_number that forgets the allocation whatever the upstream answers
cancel_number_always_clears(self, resp) ==
    IF Falsy(self.verification_id) THEN Outcome(self, Returned(FALSE), 0)
    ELSE IF ~resp.net_ok THEN Outcome(self, Raised, 1)
    ELSE Outcome([self EXCEPT !.verification_id = None,
                              !.phone_number = None,
                              !.service = None],
                 Returned(resp.status = 200), 1)

\* a cancel_number without the guard on verification_id
cancel_number_unguarded(self, resp) ==
    IF ~resp.net_ok THEN Outcome(self, Raised, 1)
    ELSE IF resp.status = 200
    THEN Outcome([self EXCEPT !.verification_id = None,
                              !.phone_number = None,
                              !.service = None],
                 Returned(TRUE), 1)
    ELSE Outcome(self, Returned(FALSE), 1)

\* cancel_number
cancel_number(self, resp) ==
    IF Falsy(self.verification_id) THEN Outcome(self, Returned(FALSE), 0)
    ELSE IF ~resp.net_ok THEN Outcome(self, Raised, 1)
    ELSE IF resp.status = 200
    THEN Outcome([self EXCEPT !.verification_id = None,
                              !.phone_number = None,
                              !.service = None],
                 Returned(TRUE), 1)
    ELSE Outcome(self, Returned(FALSE), 1)

\* the answer recorded for an operation that sent no request
NoResponse == NotJson(0)

SmsInit ==
    /\ sms_provider = TextVerifiedProvider_init(KeyConfig)
    /\ up_active = {}
    /\ up_code = [id \in VerificationIds |-> None]
    /\ up_issued = 0
    /\ sms_op = <<"__init__">>
    /\ sms_ret = Returned(None)
    /\ sms_pre = sms_provider
    /\ sms_resp = NoResponse
    /\ sms_requests = 0

\* what an SMS operation called on the instance `self` records
SmsObserveOn(self, op, out, resp) ==
    /\ sms_op' = op
    /\ sms_pre' = self
    /\ sms_provider' = out.self
    /\ sms_ret' = out.ret
    /\ sms_requests' = out.requests
    /\ sms_resp' = IF out.requests = 0 THEN NoResponse ELSE resp

\* what every SMS operation on the current instance records
SmsObserve(op, out, resp) == SmsObserveOn(sms_provider, op, out, resp)

\* registry.create_sms_provider("textverified", config): a fresh instance
NewSmsProvider(config) ==
    /\ wait_pc = "idle"
    /\ sms_provider' = TextVerifiedProvider_init(config)
    /\ sms_op' = <<"__init__">>
    /\ sms_pre' = sms_provider
    /\ sms_ret' = Returned(None)
    /\ sms_requests' = 0
    /\ sms_resp' = NoResponse
    /\ UNCHANGED <<up_active, up_code, up_issued>>
    /\ UNCHANGED non_sms_vars

GetAvailableServices ==
    \E resp \in GetServicesResponses :
        /\ wait_pc = "idle"
        /\ SmsObserve(<<"get_available_services">>,
                      get_available_services(sms_provider, resp), resp)
        /\ UNCHANGED <<up_active, up_code, up_issued>>
        /\ UNCHANGED non_sms_vars

CreateNumber(service_name) ==
    \E resp \in PostVerificationResponses :
        /\ wait_pc = "idle"
        /\ SmsObserve(<<"create_number", service_name>>,
                      create_number(sms_provider, service_name, resp), resp)
        /\ up_active' = UpstreamAfterPost(resp).active
        /\ up_issued' = UpstreamAfterPost(resp).issued
        /\ UNCHANGED up_code
        /\ UNCHANGED non_sms_vars

CheckSms ==
    \E resp \in GetVerificationResponses(sms_provider.verification_id) :
        /\ wait_pc = "idle"
        /\ SmsObserve(<<"check_sms">>, check_sms(sms_provider, resp), resp)
        /\ UNCHANGED <<up_active, up_code, up_issued>>
        /\ UNCHANGED non_sms_vars

CancelNumber ==
    \E resp \in DeleteVerificationResponses(sms_provider.verification_id) :
        LET out == cancel_number(sms_provider, resp)
        IN /\ wait_pc = "idle"
           /\ SmsObserve(<<"cancel_number">>, out, resp)
           /\ up_active' = IF out.requests = 0 THEN up_active
                           ELSE UpstreamAfterDelete(sms_provider.verification_id, resp)
           /\ UNCHANGED <<up_code, up_issued>>
           /\ UNCHANGED non_sms_vars

\* the upstream receives an SMS for an active allocation
SmsArrives(id, code) ==
    /\ id \in up_active
    /\ up_code[id] = None
    /\ up_code' = [up_code EXCEPT ![id] = code]
    /\ sms_op' = <<"upstream_sms_arrives", id>>
    /\ UNCHANGED <<sms_provider, up_active, up_issued, sms_ret, sms_pre,
                   sms_resp, sms_requests>>
    /\ UNCHANGED non_sms_vars

SmsNext ==
    \/ \E cfg \in Configs : NewSmsProvider(cfg)
    \/ GetAvailableServices
    \/ \E svc \in ServiceIds : CreateNumber(svc)
    \/ CheckSms
    \/ CancelNumber
    \/ \E id \in VerificationIds, code \in Codes : SmsArrives(id, code)

(***************************************************************************)
(* Mail.gw upstream                                                        *)
(***************************************************************************)
\* values of _generate_random_credentials
Usernames == {"user1", "user2"}
Passwords == {"pw1"}
Domains == {"x.test"}
\* f"{username}@{self.domain}"
Address(username, domain) ==
    IF username = "user1" THEN "user1@x.test" ELSE "user2@x.test"

TokenTable == <<"tok1", "tok2", "tok3", "tok4">>
MessageIds == 1..MaxMessages

\* answers to GET /domains: a first domain, an empty member list, a failure
DomainsResponses ==
    {NetworkError, NotJson(200), Json(200, NoData)}
        \cup {NotJson(st) : st \in Statuses \ {200}}
        \cup {Json(200, [NoData EXCEPT !.domain = d]) : d \in Domains}

\* answers to POST /accounts
AccountsResponses == {NetworkError} \cup {NotJson(st) : st \in Statuses}

\* answers to POST /token: a token is issued only for the credentials of an
\* account that exists
TokenResponses(account_exists) ==
    {NetworkError} \cup {NotJson(st) : st \in Statuses \ {200}}
        \cup (IF account_exists
              THEN {NotJson(200), Json(200, NoData)}
                     \cup (IF up_tokens_issued < MaxTokens
                           THEN {Json(200, [NoData EXCEPT
                                     !.token = TokenTable[up_tokens_issued + 1]])}
                           ELSE {})
              ELSE {})

\* answers to GET /messages and GET /messages/{id} sent with a bearer token
MessagesResponses(token) ==
    {NetworkError} \cup {NotJson(st) : st \in Statuses \ {200}}
        \cup (IF token \in up_tokens
              THEN {NotJson(200), Json(200, [NoData EXCEPT !.messages = up_mailbox])}
              ELSE {})

(***************************************************************************)
(* MailGwProvider                                                          *)
(* Each operation maps the instance and the upstream's answers to the      *)
(* instance afterwards, the result and the requests sent, in order.        *)
(***************************************************************************)
\* EmailProvider.__init__ and MailGwProvider.__init__
MailGwProvider_init == [email |-> None, password |-> None, token |-> None, domain |-> None]

EmailOutcome(self, ret, calls) == [self |-> self, ret |-> ret, calls |-> calls]

\* _get_domains: the first domain, or None
get_domains(resp) ==
    IF ~resp.net_ok THEN Raised
    ELSE IF resp.status = 200
    THEN IF resp.json_ok THEN Returned(resp.data.domain) ELSE Raised
    ELSE Returned(None)

\* _login
login(self, resp) ==
    IF ~resp.net_ok THEN EmailOutcome(self, Raised, <<"POST /token">>)
    ELSE IF resp.status = 200
    THEN IF resp.json_ok
         THEN EmailOutcome([self EXCEPT !.token = resp.data.token],
                           Returned(TRUE), <<"POST /token">>)
         ELSE EmailOutcome(self, Raised, <<"POST /token">>)
    ELSE EmailOutcome(self, Returned(FALSE), <<"POST /token">>)

\* create_email
create_email(self, username, password, dom_resp, acct_resp, tok_resp) ==
    LET domain == get_domains(dom_resp)
        calls1 == <<"GET /domains">>
    IN IF domain.raised THEN EmailOutcome(self, Raised, calls1)
       ELSE LET self1 == [self EXCEPT !.domain = domain.value]
            IN IF Falsy(self1.domain)
               THEN EmailOutcome(self1, Returned(<<FALSE, "", "">>), calls1)
               ELSE LET self2 == [self1 EXCEPT
                                     !.password = password,
                                     !.email = Address(username, self1.domain)]
                        calls2 == Append(calls1, "POST /accounts")
                    IN IF ~acct_resp.net_ok
                       THEN EmailOutcome(self2, Raised, calls2)
                       ELSE IF acct_resp.status = 201
                       THEN LET logged == login(self2, tok_resp)
                                calls3 == calls2 \o logged.calls
                            IN IF logged.ret.raised
                               THEN EmailOutcome(logged.self, Raised, calls3)
                               ELSE IF logged.ret.value
                               THEN EmailOutcome(logged.self,
                                        Returned(<<TRUE, logged.self.email,
                                                   logged.self.password>>), calls3)
                               ELSE EmailOutcome(logged.self,
                                        Returned(<<FALSE, logged.self.email,
                                                   logged.self.password>>), calls3)
                       ELSE EmailOutcome(self2, Returned(<<FALSE, "", "">>), calls2)

\* check_messages
check_messages(self, tok_resp, msg_resp) ==
    LET logged == IF Falsy(self.token)
                  THEN login(self, tok_resp)
                  ELSE EmailOutcome(self, Returned(TRUE), <<>>)
    IN IF logged.ret.raised THEN logged
       ELSE IF ~logged.ret.value
       THEN EmailOutcome(logged.self, Returned(<<>>), logged.calls)
       ELSE LET calls == Append(logged.calls, "GET /messages")
            IN IF ~msg_resp.net_ok
               THEN EmailOutcome(logged.self, Raised, calls)
               ELSE IF msg_resp.status = 200
               THEN IF msg_resp.json_ok
                    THEN EmailOutcome(logged.self, Returned(msg_resp.data.messages), calls)
                    ELSE EmailOutcome(logged.self, Raised, calls)
               ELSE EmailOutcome(logged.self, Returned(<<>>), calls)

\* get_message_content: the message dict, "{}" for the empty dict
get_message_content(self, message_id, tok_resp, msg_resp) ==
    LET logged == IF Falsy(self.token)
                  THEN login(self, tok_resp)
                  ELSE EmailOutcome(self, Returned(TRUE), <<>>)
    IN IF logged.ret.raised THEN logged
       ELSE IF ~logged.ret.value
       THEN EmailOutcome(logged.self, Returned("{}"), logged.calls)
       ELSE LET calls == Append(logged.calls, "GET /messages/{id}")
            IN IF ~msg_resp.net_ok
               THEN EmailOutcome(logged.self, Raised, calls)
               ELSE IF msg_resp.status = 200
               THEN IF msg_resp.json_ok
                    THEN EmailOutcome(logged.self, Returned("message"), calls)
                    ELSE EmailOutcome(logged.self, Raised, calls)
               ELSE EmailOutcome(logged.self, Returned("{}"), calls)

\* the upstream's accounts after the requests of an operation
AccountsAfter(out, acct_resp) ==
    IF \E i \in 1..Len(out.calls) : out.calls[i] = "POST /accounts"
       /\ acct_resp.net_ok /\ acct_resp.status = 201
    THEN up_accounts \cup {<<out.self.email, out.self.password>>}
    ELSE up_accounts

\* a POST /token of the operation was answered with a new token
TokenIssued(out, tok_resp) ==
    /\ \E i \in 1..Len(out.calls) : out.calls[i] = "POST /token"
    /\ tok_resp.net_ok /\ tok_resp.status = 200 /\ tok_resp.json_ok
    /\ tok_resp.data.token # None

EmailInit ==
    /\ email_provider = MailGwProvider_init
    /\ up_accounts = {}
    /\ up_tokens = {}
    /\ up_tokens_issued = 0
    /\ up_mailbox = <<>>
    /\ up_delivered = 0
    /\ email_op = <<"__init__">>
    /\ email_ret = Returned(None)
    /\ email_pre = MailGwProvider_init
    /\ email_calls = <<>>

\* what an email operation called on the instance `self` records, and what
\* its requests do upstream
EmailObserveOn(self, op, out, tok_resp) ==
    /\ email_op' = op
    /\ email_pre' = self
    /\ email_provider' = out.self
    /\ email_ret' = out.ret
    /\ email_calls' = out.calls
    /\ up_tokens' = IF TokenIssued(out, tok_resp)
                    THEN up_tokens \cup {tok_resp.data.token}
                    ELSE up_tokens
    /\ up_tokens_issued' = IF TokenIssued(out, tok_resp)
                           THEN up_tokens_issued + 1
                           ELSE up_tokens_issued

\* what every email operation on the current instance records
EmailObserve(op, out, tok_resp) ==
    EmailObserveOn(email_provider, op, out, tok_resp)

\* registry.create_email_provider("mail.gw", config): a fresh instance; the
\* facade then sets the credentials of an earlier create_email, if any
NewEmailProvider(email, password) ==
    /\ wait_pc = "idle"
    /\ email_provider' = [MailGwProvider_init EXCEPT !.email = email,
                                                     !.password = password]
    /\ email_op' = <<"__init__">>
    /\ email_pre' = email_provider
    /\ email_ret' = Returned(None)
    /\ email_calls' = <<>>
    /\ UNCHANGED <<up_accounts, up_tokens, up_tokens_issued, up_mailbox,
                   up_delivered>>
    /\ UNCHANGED non_email_vars

\* the answers that an operation reads: a request that is not sent has none
\* (recorded as NetworkError)
AnswersIf(sent, responses) == IF sent THEN responses ELSE {NetworkError}

\* the answers to the login of a message operation (sent when no token is
\* held) and to its message request (sent unless the login failed)
LoginAnswers ==
    AnswersIf(Falsy(email_provider.token),
              TokenResponses(<<email_provider.email, email_provider.password>>
                                 \in up_accounts))
MessagesAnswers(tok_resp) ==
    LET logged == IF Falsy(email_provider.token)
                  THEN login(email_provider, tok_resp)
                  ELSE EmailOutcome(email_provider, Returned(TRUE), <<>>)
    IN AnswersIf(~logged.ret.raised /\ logged.ret.value,
                 MessagesResponses(logged.self.token))

CreateEmail ==
    \E username \in Usernames, password \in Passwords,
       dom_resp \in DomainsResponses :
      \E acct_resp \in AnswersIf(~get_domains(dom_resp).raised
                                    /\ ~Falsy(get_domains(dom_resp).value),
                                  AccountsResponses) :
        \E tok_resp \in AnswersIf(acct_resp.net_ok /\ acct_resp.status = 201,
                                   TokenResponses(TRUE)) :
            LET out == create_email(email_provider, username, password,
                                    dom_resp, acct_resp, tok_resp)
            IN /\ wait_pc = "idle"
               /\ EmailObserve(<<"create_email">>, out, tok_resp)
               /\ up_accounts' = AccountsAfter(out, acct_resp)
               /\ UNCHANGED <<up_mailbox, up_delivered>>
               /\ UNCHANGED non_email_vars

CheckMessages ==
    \E tok_resp \in LoginAnswers :
        \E msg_resp \in MessagesAnswers(tok_resp) :
            /\ wait_pc = "idle"
            /\ EmailObserve(<<"check_messages">>,
                            check_messages(email_provider, tok_resp, msg_resp),
                            tok_resp)
            /\ UNCHANGED <<up_accounts, up_mailbox, up_delivered>>
            /\ UNCHANGED non_email_vars

GetMessageContent(message_id) ==
    \E tok_resp \in LoginAnswers :
        \E msg_resp \in MessagesAnswers(tok_resp) :
            /\ wait_pc = "idle"
            /\ EmailObserve(<<"get_message_content", message_id>>,
                            get_message_content(email_provider, message_id,
                                                tok_resp, msg_resp),
                            tok_resp)
            /\ UNCHANGED <<up_accounts, up_mailbox, up_delivered>>
            /\ UNCHANGED non_email_vars

\* a message is delivered to the mailbox
MailArrives ==
    /\ up_accounts # {}
    /\ up_delivered < MaxMessages
    /\ up_mailbox' = <<up_delivered + 1>> \o up_mailbox
    /\ up_delivered' = up_delivered + 1
    /\ email_op' = <<"upstream_mail_arrives">>
    /\ UNCHANGED <<email_provider, up_accounts, up_tokens, up_tokens_issued,
                   email_ret, email_pre, email_calls>>
    /\ UNCHANGED non_email_vars

\* the upstream stops accepting a token
TokenExpires(token) ==
    /\ token \in up_tokens
    /\ up_tokens' = up_tokens \ {token}
    /\ email_op' = <<"upstream_token_expires">>
    /\ UNCHANGED <<email_provider, up_accounts, up_tokens_issued, up_mailbox,
                   up_delivered, email_ret, email_pre, email_calls>>
    /\ UNCHANGED non_email_vars

EmailNext ==
    \/ NewEmailProvider(None, None)
    \/ \E acct \in up_accounts : NewEmailProvider(acct[1], acct[2])
    \/ CreateEmail
    \/ CheckMessages
    \/ \E id \in MessageIds : GetMessageContent(id)
    \/ MailArrives
    \/ \E token \in up_tokens : TokenExpires(token)

(***************************************************************************)
(* The wait loops of the provider base classes                             *)
(* A wait is at "loop" when it is about to evaluate the while test, and at *)
(* "sleep" when it is about to call time.sleep.  A poll takes up to        *)
(* MaxPollTime seconds when it sends a request.                            *)
(***************************************************************************)
Timeouts == 0..MaxTimeout
Intervals == 1..MaxInterval
PollTimes(requests) == IF requests = 0 THEN {0} ELSE 0..MaxPollTime

\* a while test that also admits elapsed = timeout
loop_continues_inclusive(time, start, limit) == time - start <= limit

\* the while test: time.time() - start_time < timeout
loop_continues(time, start, limit) == time - start < limit

\* a test that takes an empty code for a code
sms_received_not_none(code) == code # None

\* wait_for_sms: `if code:`
sms_received(code) == ~Falsy(code)

\* a comparison that also returns when the count is unchanged
messages_received_or_equal(current_messages, count) == Len(current_messages) >= count

\* wait_for_messages: `if len(current_messages) > initial_count:`
messages_received(current_messages, count) == Len(current_messages) > count

\* a slice taken from the back: current_messages[initial_count:]
new_messages_from_back(current_messages, count) ==
    SubSeq(current_messages, count + 1, Len(current_messages))

\* wait_for_messages: current_messages[:len(current_messages) - initial_count]
new_messages(current_messages, count) ==
    SubSeq(current_messages, 1, Len(current_messages) - count)

WaitInit ==
    /\ now = 0
    /\ wait_pc = "idle"
    /\ wait_kind = "sms"
    /\ start_time = 0
    /\ timeout = 0
    /\ check_interval = 1
    /\ initial_count = 0
    /\ wait_ret = Returned(None)
    /\ poll_log = <<>>
    /\ wait_sleeps = 0
    /\ wait_calls = 0
    /\ mailbox_at_call = <<>>

\* entering wait_for_sms(timeout, check_interval)
BeginWaitForSms(t, i) ==
    /\ wait_pc = "idle"
    /\ wait_calls < MaxWaits
    /\ wait_calls' = wait_calls + 1
    /\ wait_kind' = "sms"
    /\ start_time' = now
    /\ timeout' = t
    /\ check_interval' = i
    /\ wait_pc' = "loop"
    /\ wait_ret' = Returned(None)
    /\ poll_log' = <<>>
    /\ wait_sleeps' = 0
    /\ UNCHANGED <<now, initial_count, mailbox_at_call>>

\* one pass of the while loop of wait_for_sms up to the sleep
WaitSmsPoll ==
    /\ wait_pc = "loop"
    /\ wait_kind = "sms"
    /\ loop_continues(now, start_time, timeout)
    /\ \E resp \in GetVerificationResponses(sms_provider.verification_id) :
         LET out == check_sms(sms_provider, resp)
         IN /\ SmsObserve(<<"check_sms">>, out, resp)
            /\ \E d \in PollTimes(out.requests) : now' = now + d
            /\ poll_log' = Append(poll_log, [at |-> now - start_time,
                                             got |-> out.ret.value])
            /\ IF out.ret.raised
               THEN wait_pc' = "raised" /\ wait_ret' = Raised
               ELSE IF sms_received(out.ret.value)
               THEN wait_pc' = "returned" /\ wait_ret' = Returned(out.ret.value)
               ELSE wait_pc' = "sleep" /\ UNCHANGED wait_ret
    /\ UNCHANGED <<up_active, up_code, up_issued>>
    /\ UNCHANGED <<wait_kind, start_time, timeout, check_interval,
                   initial_count, wait_sleeps, wait_calls, mailbox_at_call>>

\* time.sleep(check_interval)
WaitSleep ==
    /\ wait_pc = "sleep"
    /\ now' = now + check_interval
    /\ wait_sleeps' = wait_sleeps + 1
    /\ wait_pc' = "loop"
    /\ UNCHANGED <<wait_kind, start_time, timeout, check_interval,
                   initial_count, wait_ret, poll_log, wait_calls,
                   mailbox_at_call>>

\* the while test fails: wait_for_sms returns None, wait_for_messages []
WaitTimeout ==
    /\ wait_pc = "loop"
    /\ ~loop_continues(now, start_time, timeout)
    /\ wait_pc' = "returned"
    /\ wait_ret' = IF wait_kind = "sms" THEN Returned(None) ELSE Returned(<<>>)
    /\ UNCHANGED <<now, wait_kind, start_time, timeout, check_interval,
                   initial_count, poll_log, wait_sleeps, wait_calls,
                   mailbox_at_call>>

\* entering wait_for_messages(timeout, check_interval): start_time and the
\* initial check_messages
BeginWaitForMessages(t, i) ==
    /\ wait_pc = "idle"
    /\ wait_calls < MaxWaits
    /\ wait_calls' = wait_calls + 1
    /\ wait_kind' = "messages"
    /\ start_time' = now
    /\ timeout' = t
    /\ check_interval' = i
    /\ poll_log' = <<>>
    /\ wait_sleeps' = 0
    /\ mailbox_at_call' = up_mailbox
    /\ \E tok_resp \in LoginAnswers :
        \E msg_resp \in MessagesAnswers(tok_resp) :
         LET out == check_messages(email_provider, tok_resp, msg_resp)
         IN /\ EmailObserve(<<"check_messages">>, out, tok_resp)
            /\ \E d \in PollTimes(Len(out.calls)) : now' = now + d
            /\ IF out.ret.raised
               THEN /\ wait_pc' = "raised"
                    /\ wait_ret' = Raised
                    /\ UNCHANGED initial_count
               ELSE /\ wait_pc' = "loop"
                    /\ wait_ret' = Returned(<<>>)
                    /\ initial_count' = Len(out.ret.value)
    /\ UNCHANGED <<up_accounts, up_mailbox, up_delivered>>

\* one pass of the while loop of wait_for_messages up to the sleep
WaitMessagesPoll ==
    /\ wait_pc = "loop"
    /\ wait_kind = "messages"
    /\ loop_continues(now, start_time, timeout)
    /\ \E tok_resp \in LoginAnswers :
        \E msg_resp \in MessagesAnswers(tok_resp) :
         LET out == check_messages(email_provider, tok_resp, msg_resp)
         IN /\ EmailObserve(<<"check_messages">>, out, tok_resp)
            /\ \E d \in PollTimes(Len(out.calls)) : now' = now + d
            /\ poll_log' = Append(poll_log,
                    [at |-> now - start_time,
                     got |-> IF out.ret.raised THEN -1 ELSE Len(out.ret.value)])
            /\ IF out.ret.raised
               THEN wait_pc' = "raised" /\ wait_ret' = Raised
               ELSE IF messages_received(out.ret.value, initial_count)
               THEN /\ wait_pc' = "returned"
                    /\ wait_ret' = Returned(new_messages(out.ret.value, initial_count))
               ELSE wait_pc' = "sleep" /\ UNCHANGED wait_ret
    /\ UNCHANGED <<up_accounts, up_mailbox, up_delivered>>
    /\ UNCHANGED <<wait_kind, start_time, timeout, check_interval,
                   initial_count, wait_sleeps, wait_calls, mailbox_at_call>>

\* wait_for_sms called on the instance
WaitForSms(t, i) ==
    /\ facade_pc = "idle"
    /\ BeginWaitForSms(t, i)
    /\ UNCHANGED <<reg_vars, sms_vars, email_vars, facade_vars>>

\* wait_for_messages called on the instance
WaitForMessages(t, i) ==
    /\ BeginWaitForMessages(t, i)
    /\ UNCHANGED <<reg_vars, sms_vars, facade_vars>>

WaitSmsStep == WaitSmsPoll /\ UNCHANGED <<reg_vars, email_vars, facade_vars>>
WaitMessagesStep == WaitMessagesPoll /\ UNCHANGED <<reg_vars, sms_vars, facade_vars>>
WaitSleepStep ==
    WaitSleep /\ UNCHANGED <<reg_vars, sms_vars, email_vars, facade_vars>>
WaitTimeoutStep ==
    WaitTimeout /\ UNCHANGED <<reg_vars, sms_vars, email_vars, facade_vars>>

\* create_number, then wait_for_sms on the same instance
WaitSmsNext ==
    \/ \E svc \in ServiceIds : CreateNumber(svc)
    \/ \E id \in VerificationIds, code \in Codes : SmsArrives(id, code)
    \/ \E t \in Timeouts, i \in Intervals : WaitForSms(t, i)
    \/ WaitSmsStep
    \/ WaitSleepStep
    \/ WaitTimeoutStep

\* either wait on an instance: wait_for_sms after create_number, and
\* wait_for_messages with the credentials of no account
WaitEitherNext ==
    \/ \E svc \in ServiceIds : CreateNumber(svc)
    \/ \E id \in VerificationIds, code \in Codes : SmsArrives(id, code)
    \/ \E t \in Timeouts, i \in Intervals : WaitForSms(t, i)
    \/ \E t \in Timeouts, i \in Intervals : WaitForMessages(t, i)
    \/ WaitSmsStep
    \/ WaitMessagesStep
    \/ WaitSleepStep
    \/ WaitTimeoutStep

\* create_email, then wait_for_messages on the same instance
WaitMessagesNext ==
    \/ CreateEmail
    \/ MailArrives
    \/ \E t \in Timeouts, i \in Intervals : WaitForMessages(t, i)
    \/ WaitMessagesStep
    \/ WaitSleepStep
    \/ WaitTimeoutStep

(***************************************************************************)
(* The facade (core.py)                                                    *)
(* Every facade call loads the configuration and builds a fresh provider   *)
(* instance through the registry.  The registry of the facade holds the    *)
(* built-in providers only.                                                *)
(***************************************************************************)
\* DEFAULT_CONFIG["history_limit"]
HistoryLimit == 20

\* the default of wait_for_sms's check_interval, which wait_for_sms_code
\* does not override
DefaultCheckInterval == 10

\* the provider names the configuration file has entries for
ConfiguredNames == {"textverified", "mail.gw"}

\* DEFAULT_CONFIG, the keys the facade's SMS and history functions read
DEFAULT_CONFIG ==
    [preferred_email_service |-> "mail.gw",
     preferred_sms_service |-> "textverified",
     providers |-> [n \in ConfiguredNames |->
                        IF n = "textverified" THEN {<<"api_key", "">>}
                        ELSE EmptyConfig],
     save_history |-> TRUE,
     history_limit |-> HistoryLimit]

\* load_config, with the configuration file readable
load_config == app_config

\* dict[key] = value for every item of data
DictUpdate(d, data) ==
    {kv \in d : ~\E item \in data : item[1] = kv[1]} \cup data

\* configure_provider: the configuration it passes to save_config
configure_provider(config, provider_type, provider_name, config_data) ==
    LET merged == [config EXCEPT !.providers[provider_name] =
                                      DictUpdate(@, config_data)]
    IN IF provider_type = "email"
       THEN [merged EXCEPT !.preferred_email_service = provider_name]
       ELSE IF provider_type = "sms"
       THEN [merged EXCEPT !.preferred_sms_service = provider_name]
       ELSE merged

\* a save_history that writes nothing
save_history_nothing(history, config, data) == history

\* save_history: insert at the front, cut to history_limit
save_history(history, config, data) ==
    IF ~config.save_history THEN history
    ELSE LET inserted == <<data>> \o history
         IN SubSeq(inserted, 1,
                   IF Len(inserted) < config.history_limit
                   THEN Len(inserted) ELSE config.history_limit)

\* an explicit config argument of the registry's create_* methods
Given(provider_config) == [given |-> TRUE, dict |-> provider_config]

\* registry.create_sms_provider(service_name, provider_config)
facade_sms_instance(service_name, provider_config) ==
    create_provider(ensure_initialized_sms(sms_providers), service_name,
                    Given(provider_config))

NoAllocation == [id |-> None, provider |-> None]

\* the waiting times wait_for_sms_code is called with
WaitTimes == {0, MaxTimeout, DefaultCheckInterval + 1}

\* the configuration file holds `config` and no call has been made
FacadeInitWith(config) ==
    /\ app_config = config
    /\ sms_history = <<>>
    /\ email_history = <<>>
    /\ facade_pc = "idle"
    /\ facade_op = <<"import">>
    /\ facade_ret = Returned(None)
    /\ facade_allocation = NoAllocation
    /\ facade_code_ready = None
    /\ facade_invoked = <<>>

\* no configuration file yet
FacadeInit == FacadeInitWith(DEFAULT_CONFIG)

\* the configuration files general_settings_ui leaves: Save History as it is
\* by default, or switched off
SavedConfigs ==
    {[DEFAULT_CONFIG EXCEPT !.save_history = enabled] : enabled \in BOOLEAN}

\* configure_provider(provider_type, provider_name, config_data); save_config
\* returns False when the file cannot be written
ConfigureProvider(provider_type, provider_name, config_data) ==
    /\ facade_pc = "idle"
    /\ wait_pc = "idle"
    /\ facade_op' = <<"configure_provider", provider_type, provider_name>>
    /\ \E save_ok \in BOOLEAN :
         /\ app_config' =
               IF save_ok
               THEN configure_provider(load_config, provider_type,
                                       provider_name, config_data)
               ELSE app_config
         /\ facade_ret' = Returned(save_ok)
    /\ facade_invoked' = <<>>
    /\ UNCHANGED <<sms_history, email_history, facade_pc, facade_allocation,
                   facade_code_ready>>
    /\ UNCHANGED <<reg_vars, sms_vars, email_vars, wait_vars>>

\* create_temp_sms(service_id)
CreateTempSms(service_id) ==
    LET config == load_config
        service_name == config.preferred_sms_service
        provider_config == config.providers[service_name]
        instance == facade_sms_instance(service_name, provider_config)
    IN /\ facade_pc = "idle"
       /\ wait_pc = "idle"
       /\ Len(sms_history) < MaxHistory
       /\ facade_op' = <<"create_temp_sms", service_id>>
       /\ IF Falsy(DictGet(provider_config, "api_key", None))
          THEN /\ facade_ret' = Returned(<<FALSE, "", "">>)
               /\ facade_invoked' = <<>>
               /\ UNCHANGED <<reg_vars, sms_vars, sms_history, facade_allocation>>
          ELSE /\ LookupEffect(<<"create_sms_provider", service_name>>,
                               None, instance, FALSE)
               /\ IF instance = NoInstance
                  THEN /\ facade_ret' = Returned(<<FALSE, "", "">>)
                       /\ facade_invoked' = <<>>
                       /\ UNCHANGED <<sms_vars, sms_history, facade_allocation>>
                  ELSE \E resp \in PostVerificationResponses :
                        LET self == TextVerifiedProvider_init(instance.config)
                            out == create_number(self, service_id, resp)
                        IN /\ SmsObserveOn(self, <<"create_number", service_id>>,
                                           out, resp)
                           /\ facade_invoked' = <<"create_number">>
                           /\ up_active' = UpstreamAfterPost(resp).active
                           /\ up_issued' = UpstreamAfterPost(resp).issued
                           /\ UNCHANGED up_code
                           /\ IF out.ret.raised
                              THEN /\ facade_ret' = Raised
                                   /\ UNCHANGED <<sms_history, facade_allocation>>
                              ELSE IF out.ret.value[1]
                              THEN /\ sms_history' =
                                        save_history(sms_history, config,
                                            [phone_number |-> out.ret.value[2],
                                             service |-> service_id,
                                             provider |-> service_name,
                                             timestamp |-> now])
                                   /\ facade_ret' =
                                        Returned(<<TRUE, out.ret.value[2],
                                                   service_name>>)
                                   /\ facade_allocation' =
                                        [id |-> out.self.verification_id,
                                         provider |-> service_name]
                              ELSE /\ facade_ret' = Returned(<<FALSE, "", "">>)
                                   /\ UNCHANGED <<sms_history, facade_allocation>>
       /\ UNCHANGED <<app_config, email_history, facade_pc, facade_code_ready>>
       /\ UNCHANGED <<email_vars, wait_vars>>

\* wait_for_sms_code(service_name, wait_time) up to the first while test of
\* wait_for_sms
WaitForSmsCode(service_name, wait_time) ==
    LET provider_config == load_config.providers[service_name]
        instance == facade_sms_instance(service_name, provider_config)
    IN /\ facade_pc = "idle"
       /\ wait_pc = "idle"
       /\ facade_op' = <<"wait_for_sms_code", service_name, wait_time>>
       /\ LookupEffect(<<"create_sms_provider", service_name>>,
                       None, instance, FALSE)
       /\ IF instance = NoInstance
          THEN /\ facade_ret' = Returned(None)
               /\ facade_invoked' = <<>>
               /\ UNCHANGED <<sms_vars, wait_vars, facade_pc, facade_code_ready>>
          ELSE /\ sms_provider' = TextVerifiedProvider_init(instance.config)
               /\ sms_op' = <<"__init__">>
               /\ sms_pre' = sms_provider'
               /\ sms_ret' = Returned(None)
               /\ sms_requests' = 0
               /\ sms_resp' = NoResponse
               /\ UNCHANGED <<up_active, up_code, up_issued>>
               /\ BeginWaitForSms(wait_time, DefaultCheckInterval)
               /\ facade_invoked' = <<"wait_for_sms">>
               /\ facade_pc' = "wait_for_sms_code"
               /\ facade_code_ready' =
                     IF /\ facade_allocation.id \in up_active
                        /\ facade_allocation.provider = service_name
                     THEN up_code[facade_allocation.id]
                     ELSE None
               /\ UNCHANGED facade_ret
       /\ UNCHANGED <<app_config, sms_history, email_history, facade_allocation>>
       /\ UNCHANGED email_vars

\* wait_for_sms_code after wait_for_sms: cancel_number, return code
WaitForSmsCodeReturn ==
    /\ facade_pc = "wait_for_sms_code"
    /\ wait_pc \in {"returned", "raised"}
    /\ IF wait_ret.raised
       THEN /\ facade_ret' = Raised
            /\ UNCHANGED <<sms_vars, facade_invoked>>
       ELSE \E resp \in DeleteVerificationResponses(sms_provider.verification_id) :
             LET out == cancel_number(sms_provider, resp)
             IN /\ SmsObserve(<<"cancel_number">>, out, resp)
                /\ facade_invoked' = Append(facade_invoked, "cancel_number")
                /\ up_active' =
                      IF out.requests = 0 THEN up_active
                      ELSE UpstreamAfterDelete(sms_provider.verification_id, resp)
                /\ UNCHANGED <<up_code, up_issued>>
                /\ facade_ret' = IF out.ret.raised THEN Raised ELSE wait_ret
    /\ facade_pc' = "idle"
    /\ wait_pc' = "idle"
    /\ UNCHANGED <<now, wait_kind, start_time, timeout, check_interval,
                   initial_count, wait_ret, poll_log, wait_sleeps, wait_calls,
                   mailbox_at_call>>
    /\ UNCHANGED <<app_config, sms_history, email_history, facade_op,
                   facade_allocation, facade_code_ready>>
    /\ UNCHANGED <<reg_vars, email_vars>>

\* cancel_sms_number(service_name)
CancelSmsNumber(service_name) ==
    LET provider_config == load_config.providers[service_name]
        instance == facade_sms_instance(service_name, provider_config)
    IN /\ facade_pc = "idle"
       /\ wait_pc = "idle"
       /\ facade_op' = <<"cancel_sms_number", service_name>>
       /\ LookupEffect(<<"create_sms_provider", service_name>>,
                       None, instance, FALSE)
       /\ IF instance = NoInstance
          THEN /\ facade_ret' = Returned(FALSE)
               /\ facade_invoked' = <<>>
               /\ UNCHANGED sms_vars
          ELSE LET self == TextVerifiedProvider_init(instance.config)
               IN \E resp \in DeleteVerificationResponses(self.verification_id) :
                    LET out == cancel_number(self, resp)
                    IN /\ SmsObserveOn(self, <<"cancel_number">>, out, resp)
                       /\ facade_invoked' = <<"cancel_number">>
                       /\ up_active' =
                             IF out.requests = 0 THEN up_active
                             ELSE UpstreamAfterDelete(self.verification_id, resp)
                       /\ UNCHANGED <<up_code, up_issued>>
                       /\ facade_ret' = out.ret
       /\ UNCHANGED <<app_config, sms_history, email_history, facade_pc,
                      facade_allocation, facade_code_ready>>
       /\ UNCHANGED <<email_vars, wait_vars>>

\* registry.create_email_provider(service_name, provider_config)
facade_email_instance(service_name, provider_config) ==
    create_provider(ensure_initialized_email(email_providers), service_name,
                    Given(provider_config))

\* the username create_email generates when it is given none
GeneratedUsernames == {"user1"}

\* create_temp_email()
CreateTempEmail ==
    LET config == load_config
        service_name == config.preferred_email_service
        provider_config == config.providers[service_name]
        instance == facade_email_instance(service_name, provider_config)
        failure == Returned(<<FALSE, "", "", <<>>>>)
    IN /\ facade_pc = "idle"
       /\ wait_pc = "idle"
       /\ Len(email_history) < MaxHistory
       /\ facade_op' = <<"create_temp_email">>
       /\ LookupEffect(<<"create_email_provider", service_name>>,
                       instance, None, TRUE)
       /\ IF instance = NoInstance
          THEN /\ facade_ret' = failure
               /\ facade_invoked' = <<>>
               /\ UNCHANGED <<email_vars, email_history>>
          ELSE \E username \in GeneratedUsernames, password \in Passwords,
                  dom_resp \in DomainsResponses :
                \E acct_resp \in AnswersIf(~get_domains(dom_resp).raised
                                              /\ ~Falsy(get_domains(dom_resp).value),
                                            AccountsResponses) :
                 \E tok_resp \in AnswersIf(acct_resp.net_ok /\ acct_resp.status = 201,
                                            TokenResponses(TRUE)) :
                   LET self == MailGwProvider_init
                       out == create_email(self, username, password,
                                           dom_resp, acct_resp, tok_resp)
                   IN /\ EmailObserveOn(self, <<"create_email">>, out, tok_resp)
                      /\ up_accounts' = AccountsAfter(out, acct_resp)
                      /\ UNCHANGED <<up_mailbox, up_delivered>>
                      /\ facade_invoked' = <<"create_email">>
                      /\ IF out.ret.raised \/ ~out.ret.value[1]
                         THEN /\ facade_ret' = failure
                              /\ UNCHANGED email_history
                         ELSE /\ email_history' =
                                    save_history(email_history, config,
                                        [email |-> out.ret.value[2],
                                         password |-> out.ret.value[3],
                                         service |-> service_name,
                                         timestamp |-> now])
                              /\ facade_ret' =
                                    Returned(<<TRUE, out.ret.value[2],
                                               out.ret.value[3], <<>>>>)
       /\ UNCHANGED <<app_config, sms_history, facade_pc, facade_allocation,
                      facade_code_ready>>
       /\ UNCHANGED <<sms_vars, wait_vars>>

\* cls.get_setup_fields() called on a provider class
GetSetupFields(cls) ==
    /\ facade_pc = "idle"
    /\ wait_pc = "idle"
    /\ facade_op' = <<"get_setup_fields", cls>>
    /\ facade_ret' = Returned(get_setup_fields(cls))
    /\ facade_invoked' = <<>>
    /\ UNCHANGED <<app_config, sms_history, email_history, facade_pc,
                   facade_allocation, facade_code_ready>>
    /\ UNCHANGED <<reg_vars, sms_vars, email_vars, wait_vars>>

\* get_available_providers: auto_discover_providers, then the two get_all_*
\* lookups, of which the first runs _ensure_initialized
AvailableProvidersEffect ==
    LET lazy == IF initialized THEN {} ELSE {TRUE}
        lazy_email == IF initialized THEN {} ELSE ScannedEmail
        lazy_sms == IF initialized THEN {} ELSE ScannedSms
    IN /\ scans + 1 + Cardinality(lazy) <= MaxScans
       /\ email_providers' =
             ensure_initialized_email(auto_discover_email(email_providers))
       /\ sms_providers' =
             ensure_initialized_sms(auto_discover_sms(sms_providers))
       /\ initialized' = (initialized \/ ensure_initialized_flag)
       /\ last_email_reg' =
             LogRegistrations(
                 LogRegistrations(
                     LogRegistrations(last_email_reg, ScannedEmail),
                     UNION {PluginEmailClasses(ep) : ep \in LoadedEntryPoints}),
                 lazy_email)
       /\ last_sms_reg' =
             LogRegistrations(
                 LogRegistrations(
                     LogRegistrations(last_sms_reg, ScannedSms),
                     UNION {PluginSmsClasses(ep) : ep \in LoadedEntryPoints}),
                 lazy_sms)
       /\ scans' = scans + 1 + Cardinality(lazy)
       /\ lazy_scans' = lazy_scans + Cardinality(lazy)
       /\ auto_runs' = auto_runs + 1
       /\ reg_op' = <<"get_all_sms_providers">>
       /\ reg_ret' = Entries(sms_providers')
       /\ UNCHANGED <<email_import_ok, sms_import_ok, pkg_resources_ok,
                      plugin_load_ok, explicit_email, explicit_sms>>

\* what the prompts of configure_providers_ui make of the setup fields: the
\* value typed, else the current value; the dialogue returns when a
\* required field gets neither
PromptedConfig(setup_fields, current, value) ==
    IF setup_fields = <<>> THEN [returns |-> FALSE, data |-> EmptyConfig]
    ELSE LET name == setup_fields[1].name
             current_value == DictGet(current, name, "")
         IN IF ~Falsy(value)
            THEN [returns |-> FALSE, data |-> {<<name, value>>}]
            ELSE IF ~Falsy(current_value)
            THEN [returns |-> FALSE, data |-> {<<name, current_value>>}]
            ELSE [returns |-> setup_fields[1].required, data |-> EmptyConfig]

\* the values typed at a prompt: nothing, or a key
PromptValues == {"", "new-api-key"}

\* configure_providers_ui(provider_type) with the provider picked, the
\* answer to 'Set as preferred' and the value typed for its field
ConfigureProvidersUi(provider_type, provider_name, make_preferred, value) ==
    LET providers == IF provider_type = "email" THEN email_providers'
                     ELSE sms_providers'
        config == load_config
        provider_class == providers[provider_name]
        setup_fields == get_setup_fields(provider_class)
        prompted == PromptedConfig(setup_fields,
                                   config.providers[provider_name], value)
        configured == configure_provider(load_config, provider_type,
                                         provider_name, prompted.data)
    IN /\ facade_pc = "idle"
       /\ wait_pc = "idle"
       /\ AvailableProvidersEffect
       /\ facade_op' = <<"configure_providers_ui", provider_type,
                         provider_name, make_preferred, value>>
       /\ facade_invoked' = <<>>
       /\ IF provider_class = None
          THEN /\ facade_ret' = Returned("Invalid selection.")
               /\ UNCHANGED app_config
          ELSE IF prompted.returns
          THEN /\ facade_ret' = Returned("API Key is required.")
               /\ UNCHANGED app_config
          ELSE \E save_ok \in BOOLEAN, preferred_save_ok \in BOOLEAN :
                 /\ facade_ret' =
                       Returned(IF save_ok
                                THEN "Configuration saved successfully"
                                ELSE "Failed to save configuration")
                 /\ app_config' =
                       IF ~save_ok THEN app_config
                       ELSE IF make_preferred /\ preferred_save_ok
                       THEN IF provider_type = "email"
                            THEN [configured EXCEPT
                                     !.preferred_email_service = provider_name]
                            ELSE [configured EXCEPT
                                     !.preferred_sms_service = provider_name]
                       ELSE configured
       /\ UNCHANGED <<sms_history, email_history, facade_pc, facade_allocation,
                      facade_code_ready>>
       /\ UNCHANGED <<sms_vars, email_vars, wait_vars>>

\* the provider setup: the setup fields of every class and the settings
\* dialogue for the built-in providers
SetupNext ==
    \/ \E cls \in EmailClasses \cup SmsClasses : GetSetupFields(cls)
    \/ \E provider_type \in {"email", "sms"}, provider_name \in ConfiguredNames,
          make_preferred \in BOOLEAN, value \in PromptValues :
          ConfigureProvidersUi(provider_type, provider_name, make_preferred,
                               value)

\* the facade's two creation functions under every configuration
FacadeCreateNext ==
    \/ \E provider_type \in {"email", "sms"} :
          ConfigureProvider(provider_type, "textverified", KeyConfig)
    \/ CreateTempSms("svc1")
    \/ CreateTempEmail

\* the facade's SMS functions, with SMS arriving at the upstream
FacadeSmsNext ==
    \/ \E provider_name \in ConfiguredNames :
          ConfigureProvider("sms", provider_name, KeyConfig)
    \/ \E service_id \in ServiceIds : CreateTempSms(service_id)
    \/ \E service_name \in ConfiguredNames, wait_time \in WaitTimes :
          WaitForSmsCode(service_name, wait_time)
    \/ WaitSmsStep
    \/ WaitSleepStep
    \/ WaitTimeoutStep
    \/ WaitForSmsCodeReturn
    \/ \E service_name \in ConfiguredNames : CancelSmsNumber(service_name)
    \/ \E id \in VerificationIds, code \in Codes : SmsArrives(id, code)

(***************************************************************************)
(* Specifications                                                          *)
(***************************************************************************)
\* the registry on its own
InitRegistry == RegInit /\ SmsInit /\ EmailInit /\ WaitInit /\ FacadeInit
SpecRegistry == InitRegistry /\ [][RegNext]_vars

\* one TextVerifiedProvider instance against its upstream
InitSms == RegIdle /\ SmsInit /\ EmailInit /\ WaitInit /\ FacadeInit
SpecSms == InitSms /\ [][SmsNext]_vars

\* one MailGwProvider instance against its upstream
InitEmail == RegIdle /\ SmsInit /\ EmailInit /\ WaitInit /\ FacadeInit
SpecEmail == InitEmail /\ [][EmailNext]_vars

\* wait_for_sms on a TextVerifiedProvider instance
InitWaitSms == RegIdle /\ SmsInit /\ EmailInit /\ WaitInit /\ FacadeInit
SpecWaitSms == InitWaitSms /\ [][WaitSmsNext]_vars

\* wait_for_messages on a MailGwProvider instance
InitWaitMessages == RegIdle /\ SmsInit /\ EmailInit /\ WaitInit /\ FacadeInit
SpecWaitMessages == InitWaitMessages /\ [][WaitMessagesNext]_vars

\* the two wait loops side by side
InitWaitEither == RegIdle /\ SmsInit /\ EmailInit /\ WaitInit /\ FacadeInit
SpecWaitEither == InitWaitEither /\ [][WaitEitherNext]_vars

\* the facade's SMS flow: create_temp_sms, wait_for_sms_code, cancel_sms_number
InitFacadeSms == RegIdle /\ SmsInit /\ EmailInit /\ WaitInit /\ FacadeInit
SpecFacadeSms == InitFacadeSms /\ [][FacadeSmsNext]_vars

\* the facade's creation functions and the history they write
InitFacadeCreate ==
    /\ RegIdle /\ SmsInit /\ EmailInit /\ WaitInit
    /\ \E config \in SavedConfigs : FacadeInitWith(config)
SpecFacadeCreate == InitFacadeCreate /\ [][FacadeCreateNext]_vars

\* the configuration files an earlier settings dialogue leaves: each kind
\* prefers its built-in provider or the plugin's
SetupConfigs ==
    {[DEFAULT_CONFIG EXCEPT !.preferred_email_service = e,
                            !.preferred_sms_service = s] :
        e \in {"mail.gw", "plugin"}, s \in {"textverified", "plugin"}}

\* the provider setup
InitSetup ==
    /\ RegIdle /\ SmsInit /\ EmailInit /\ WaitInit
    /\ \E config \in SetupConfigs : FacadeInitWith(config)
SpecSetup == InitSetup /\ [][SetupNext]_vars

(***************************************************************************)
(* Registry properties                                                     *)
(***************************************************************************)
IsCreate(op) == op[1] \in {"create_email_provider", "create_sms_provider"}
IsLookup(op) ==
    op[1] \in {"get_email_provider", "get_sms_provider",
               "get_all_email_providers", "get_all_sms_providers",
               "create_email_provider", "create_sms_provider"}

CreatedFrom(log, name, ret) ==
    IF log[name] = None
    THEN ret = NoInstance
    ELSE /\ ret # NoInstance
         /\ ret.cls = log[name]
         /\ ClassName(ret.cls) = name

\* C8: create_<kind>_provider(name, cfg) returns an instance of the class
\* most recently passed to register_<kind>_provider under that name (by a
\* caller, by the built-in scan or by a plugin hook), whose declared name is
\* the name asked for, and returns None for a name no class was ever
\* registered under in that kind.
C8_CreateReturnsLastRegistered ==
    /\ reg_op[1] = "create_email_provider" =>
            CreatedFrom(last_email_reg, reg_op[2], reg_ret)
    /\ reg_op[1] = "create_sms_provider" =>
            CreatedFrom(last_sms_reg, reg_op[2], reg_ret)

\* a create call returned the class registered explicitly after the built-in
\* of the same name had been registered by the scan
C8_Witness ==
    /\ reg_op = <<"create_email_provider", "mail.gw">>
    /\ reg_ret # NoInstance
    /\ reg_ret.cls = "AltMailGwProvider"
    /\ email_import_ok
    /\ lazy_scans = 1

\* C9: a state reached by a discovery run is a fixed point of discovery
\* (running it again, lazily or explicitly, leaves both mappings as they
\* are), the lazy scan runs at most once, and a lookup/create call on an
\* initialised registry runs no scan and changes neither mapping.
C9_DiscoveryIdempotentSingleShot ==
    [][ /\ scans' # scans =>
              /\ discover_builtin_email(email_providers') = email_providers'
              /\ discover_builtin_sms(sms_providers') = sms_providers'
        /\ auto_runs' # auto_runs =>
              /\ auto_discover_email(email_providers') = email_providers'
              /\ auto_discover_sms(sms_providers') = sms_providers'
        /\ lazy_scans' <= 1
        /\ (initialized /\ IsLookup(reg_op')) =>
              /\ scans' = scans
              /\ email_providers' = email_providers
              /\ sms_providers' = sms_providers
      ]_vars

\* discovery ran twice, once explicitly and once lazily, and a lookup was
\* then served by the initialised registry
C9_Witness ==
    /\ scans = 2
    /\ lazy_scans = 1
    /\ auto_runs = 1
    /\ initialized
    /\ email_import_ok /\ sms_import_ok
    /\ reg_op = <<"get_email_provider", "mail.gw">>
    /\ reg_ret = "MailGwProvider"

\* C10: on a registry with exactly one email provider and one SMS provider
\* registered explicitly (and no explicit discovery), get_all_email_providers
\* and get_all_sms_providers return exactly that one entry.
C10_GetAllReturnsOnlyExplicit ==
    (auto_runs = 0 /\ Cardinality(explicit_email) = 1
                   /\ Cardinality(explicit_sms) = 1) =>
        /\ reg_op[1] = "get_all_email_providers" =>
                reg_ret = {<<ClassName(c), c>> : c \in explicit_email}
        /\ reg_op[1] = "get_all_sms_providers" =>
                reg_ret = {<<ClassName(c), c>> : c \in explicit_sms}


(***************************************************************************)
(* TextVerifiedProvider properties                                         *)
(***************************************************************************)
SmsFields(self) == <<self.verification_id, self.phone_number, self.service>>
SmsCleared(self) == SmsFields(self) = <<None, None, None>>

\* C6: cancel_number on an instance holding a verification id: when the
\* DELETE is answered 200 it returns True and clears verification_id,
\* phone_number and service, and a cancel_number that follows immediately
\* returns False; when the DELETE is answered with any other status it
\* returns False and leaves the three fields as they were.
C6_CancelWithActiveId ==
    [][ (sms_op' = <<"cancel_number">> /\ sms_pre' = sms_provider) =>
          /\ (~Falsy(sms_provider.verification_id) /\ sms_resp'.net_ok) =>
                IF sms_resp'.status = 200
                THEN Returns(sms_ret', TRUE) /\ SmsCleared(sms_provider')
                ELSE /\ Returns(sms_ret', FALSE)
                     /\ SmsFields(sms_provider') = SmsFields(sms_provider)
          /\ (sms_op = <<"cancel_number">> /\ Returns(sms_ret, TRUE)) =>
                Returns(sms_ret', FALSE)
      ]_vars

\* a cancel_number returned False right after a cancel_number had returned
\* True on an allocation made by create_number
C6_Witness ==
    /\ sms_op = <<"cancel_number">>
    /\ Returns(sms_ret, FALSE)
    /\ SmsCleared(sms_pre)
    /\ up_issued = 1
    /\ up_active = {}

\* C7: cancel_number on an instance with no active allocation returns False,
\* raises nothing, sends no upstream request and changes neither the
\* instance nor the upstream.
C7_CancelWithoutAllocation ==
    [][ (sms_op' = <<"cancel_number">> /\ sms_pre' = sms_provider
            /\ Falsy(sms_provider.verification_id)) =>
          /\ Returns(sms_ret', FALSE)
          /\ sms_requests' = 0
          /\ sms_provider' = sms_provider
          /\ <<up_active, up_code, up_issued>>' = <<up_active, up_code, up_issued>>
      ]_vars

\* cancel_number was called on an instance whose create_number had failed
C7_Witness ==
    /\ sms_op = <<"cancel_number">>
    /\ Falsy(sms_pre.verification_id)
    /\ Returns(sms_ret, FALSE)
    /\ sms_requests = 0
    /\ up_issued = 0
(***************************************************************************)
(* Creation failure properties                                             *)
(***************************************************************************)
\* the operation returned a tuple whose first component is False
ReturnedNotOk(ret) == ~ret.raised /\ ret.value[1] = FALSE

\* C4: whenever create_email returns ok = False, the address and the
\* password it returns are both the empty string.
C4_FailedCreateEmailReturnsEmpty ==
    (email_op = <<"create_email">> /\ ReturnedNotOk(email_ret)) =>
        /\ email_ret.value[2] = ""
        /\ email_ret.value[3] = ""

EmailCredentials(self) == <<self.email, self.password, self.token>>

\* C5: after create_email or create_number has returned ok = False, the
\* instance holds the credentials it held before the call: email, password
\* and token for the email provider, verification_id, phone_number and
\* service for the SMS provider.
C5_FailedCreateRetainsNothing ==
    /\ (email_op = <<"create_email">> /\ ReturnedNotOk(email_ret)) =>
            EmailCredentials(email_provider) = EmailCredentials(email_pre)
    /\ (sms_op[1] = "create_number" /\ ReturnedNotOk(sms_ret)) =>
            SmsFields(sms_provider) = SmsFields(sms_pre)

(***************************************************************************)
(* Properties of the wait loops                                            *)
(***************************************************************************)
\* the polls of the running wait_for_sms that yielded a non-empty code
SmsHits == {n \in 1..Len(poll_log) : ~Falsy(poll_log[n].got)}

\* the polls of the running wait_for_messages whose count exceeded the
\* initial count
MessageHits == {n \in 1..Len(poll_log) : poll_log[n].got > initial_count}

\* every poll of the loop was made while elapsed < timeout
PollsBeforeTimeout == \A n \in 1..Len(poll_log) : poll_log[n].at < timeout

\* C3: wait_for_sms polls only while elapsed < timeout; it goes on only
\* while no poll has yielded a non-empty code; when the Nth poll is the
\* first to yield one it returns that code with N polls and N-1 sleeps
\* made; when no poll yielded one it returns None, once the timeout has
\* elapsed.
C3_WaitForSmsReturnsAtNthPoll ==
    wait_kind = "sms" =>
        /\ PollsBeforeTimeout
        /\ wait_pc \in {"loop", "sleep"} => SmsHits = {}
        /\ wait_pc = "returned" =>
             IF SmsHits # {}
             THEN /\ SmsHits = {Len(poll_log)}
                  /\ wait_ret = Returned(poll_log[Len(poll_log)].got)
                  /\ wait_sleeps = Len(poll_log) - 1
             ELSE /\ wait_ret = Returned(None)
                  /\ now - start_time >= timeout

\* wait_for_sms has returned the code its second or later poll yielded
C3_Witness ==
    /\ wait_kind = "sms"
    /\ wait_pc = "returned"
    /\ Len(poll_log) >= 2
    /\ SmsHits = {Len(poll_log)}
    /\ wait_ret = Returned(poll_log[Len(poll_log)].got)

\* C2: wait_for_messages polls only while elapsed < timeout; it goes on
\* only while no poll has exceeded the initial count; when a poll is the
\* first to exceed it the call returns at that poll, with the messages in
\* excess of the initial count; when no poll exceeded it the call returns
\* the empty list, once the timeout has elapsed.
C2_WaitForMessagesReturnsAtFirstExcess ==
    wait_kind = "messages" =>
        /\ PollsBeforeTimeout
        /\ wait_pc \in {"loop", "sleep"} => MessageHits = {}
        /\ wait_pc = "returned" =>
             IF MessageHits # {}
             THEN /\ MessageHits = {Len(poll_log)}
                  /\ ~wait_ret.raised
                  /\ Len(wait_ret.value) =
                         poll_log[Len(poll_log)].got - initial_count
                  /\ wait_sleeps = Len(poll_log) - 1
             ELSE /\ wait_ret = Returned(<<>>)
                  /\ now - start_time >= timeout

\* wait_for_messages has returned at its second or later poll, the first
\* whose count exceeded the initial count
C2_Witness ==
    /\ wait_kind = "messages"
    /\ wait_pc = "returned"
    /\ Len(poll_log) >= 2
    /\ MessageHits = {Len(poll_log)}
    /\ wait_ret.value # <<>>

(***************************************************************************)
(* Properties of the facade's SMS flow                                     *)
(***************************************************************************)
\* wait_for_sms_code(provider, T) has returned, it was called with T > 0
\* for the provider of an allocation create_temp_sms had made, and the
\* upstream held a code for that allocation when it was called
WaitedWithCodeReady ==
    /\ facade_pc = "idle"
    /\ facade_op[1] = "wait_for_sms_code"
    /\ facade_op[2] = facade_allocation.provider
    /\ facade_op[3] > 0
    /\ ~Falsy(facade_code_ready)

\* C1: after create_temp_sms has succeeded, wait_for_sms_code(provider, T)
\* returns the verification code when the upstream holds a code for that
\* allocation before T seconds have elapsed.
C1_WaitForSmsCodeReturnsAvailableCode ==
    WaitedWithCodeReady => facade_ret = Returned(facade_code_ready)

\* a call of one of the facade's SMS functions has returned or raised
FacadeSmsCallEnded ==
    /\ facade_pc = "idle"
    /\ facade_op[1] \in {"create_temp_sms", "wait_for_sms_code", "cancel_sms_number"}

\* the provider name that call resolved
FacadeCallProvider ==
    IF facade_op[1] = "create_temp_sms"
    THEN app_config.preferred_sms_service
    ELSE facade_op[2]

\* the name is unknown to the registry, or its provider requires an API key
\* and the configuration has none
ProviderUnresolved(name) ==
    \/ sms_providers[name] = None
    \/ /\ requires_api_key(sms_providers[name])
       /\ Falsy(DictGet(app_config.providers[name], "api_key", None))

\* C11: a facade function called for a provider that is unknown, or that
\* requires an API key when none is configured, returns without invoking
\* any provider operation.
C11_UnresolvedProviderShortCircuits ==
    (FacadeSmsCallEnded /\ ProviderUnresolved(FacadeCallProvider))
        => facade_invoked = <<>>

\* C12: a facade function called for a provider that resolves invokes
\* exactly one provider operation.
C12_ExactlyOneOperation ==
    (FacadeSmsCallEnded /\ ~ProviderUnresolved(FacadeCallProvider)
        /\ ~facade_ret.raised)
        => Len(facade_invoked) = 1

\* C13: once wait_for_sms_code has returned for the provider of the
\* allocation create_temp_sms made, and the upstream refused no
\* cancellation, that allocation is no longer active upstream.
C13_WaitForSmsCodeCancelsAllocation ==
    (/\ facade_pc = "idle"
     /\ facade_op[1] = "wait_for_sms_code"
     /\ facade_op[2] = facade_allocation.provider
     /\ ~facade_ret.raised
     /\ sms_op = <<"cancel_number">>
     /\ (sms_requests = 0 \/ (sms_resp.net_ok /\ sms_resp.status = 200)))
        => facade_allocation.id \notin up_active

\* C16: no facade function raises: a facade call ends by returning a value.
C16_FacadeNeverRaises ==
    FacadeSmsCallEnded => ~facade_ret.raised

(***************************************************************************)
(* Error handling of the adapters                                          *)
(***************************************************************************)
\* C15: no TextVerifiedProvider operation raises: on a network failure, a
\* non-2xx answer or a body that is not JSON it returns its failure value.
C15_AdapterNeverRaises ==
    sms_op[1] \in {"get_available_services", "create_number", "check_sms",
                   "cancel_number"}
        => ~sms_ret.raised

\* the token the instance held when the operation started was absent, or
\* the upstream no longer accepted it
TokenStale == Falsy(email_pre.token) \/ email_pre.token \notin up_tokens

\* C17: check_messages and get_message_content log in first when the token
\* is absent or expired, and do not log in when a valid token is held.
C17_LazyReauthentication ==
    email_op[1] \in {"check_messages", "get_message_content"} =>
        /\ TokenStale => (email_calls # <<>> /\ email_calls[1] = "POST /token")
        /\ ~TokenStale => (email_calls # <<>> /\ email_calls[1] # "POST /token")

\* create_email has just returned ok=true on the instance
CreateEmailSucceeded ==
    /\ email_op = <<"create_email">>
    /\ ~email_ret.raised
    /\ email_ret.value[1]

\* C18: create_email sends domain lookup, account creation, token login in
\* that order; when it returns ok=true a token is stored, and the next
\* check_messages on the instance sends that token without another login.
C18_CreateEmailThenCheckMessages ==
    [][/\ email_op' = <<"create_email">> =>
            \E n \in 0..3 :
                email_calls' = SubSeq(<<"GET /domains", "POST /accounts",
                                        "POST /token">>, 1, n)
       /\ (CreateEmailSucceeded /\ email_op' = <<"check_messages">>) =>
            /\ ~Falsy(email_provider.token)
            /\ email_calls'[1] = "GET /messages"
            /\ email_provider'.token = email_provider.token]_vars

(***************************************************************************)
(* Duration of a wait                                                      *)
(***************************************************************************)
\* every poll of the wait was instantaneous: the clock has advanced by the
\* sleeps only
PollsInstantaneous == now - start_time = wait_sleeps * check_interval

\* C19: with instantaneous polls a wait called with timeout > 0 returns no
\* later than timeout seconds after it was called.
C19_WaitReturnsWithinTimeout ==
    (wait_pc = "returned" /\ timeout > 0 /\ PollsInstantaneous)
        => now - start_time <= timeout

(***************************************************************************)
(* Plugin discovery                                                        *)
(***************************************************************************)
\* the built-in classes and the classes of the entry points that load are
\* in the mappings
DiscoveredRegistered ==
    /\ \A c \in ScannedEmail : email_providers[ClassName(c)] = c
    /\ \A c \in ScannedSms : sms_providers[ClassName(c)] = c
    /\ pkg_resources_ok =>
         \A ep \in EntryPoints :
            plugin_load_ok[ep] =>
               /\ \A c \in PluginEmailClasses(ep) : email_providers[ClassName(c)] = c
               /\ \A c \in PluginSmsClasses(ep) : sms_providers[ClassName(c)] = c

\* C20: after auto_discover_providers every entry point that loads has had
\* its hook run, whichever other entry points failed, and the built-in
\* providers are registered.
C20_PluginFailureDoesNotAbortDiscovery ==
    reg_op = <<"auto_discover_providers">> => DiscoveredRegistered

\* auto_discover_providers has run with one entry point failing and the
\* other one registered
C20_Witness ==
    /\ reg_op = <<"auto_discover_providers">>
    /\ pkg_resources_ok
    /\ ~plugin_load_ok["ep_email"]
    /\ plugin_load_ok["ep_sms"]
    /\ sms_providers["plugin"] = "PluginSMSProvider"
    /\ email_import_ok
    /\ email_providers["mail.gw"] = "MailGwProvider"

(***************************************************************************)
(* History                                                                 *)
(***************************************************************************)
\* the step is a create_temp_sms call whose create_number reported success
SmsCreationSucceeds ==
    /\ facade_op'[1] = "create_temp_sms"
    /\ facade_invoked' = <<"create_number">>
    /\ ~sms_ret'.raised
    /\ sms_ret'.value[1]

\* the step is a create_temp_email call whose create_email reported success
EmailCreationSucceeds ==
    /\ facade_op' = <<"create_temp_email">>
    /\ facade_invoked' = <<"create_email">>
    /\ ~email_ret'.raised
    /\ email_ret'.value[1]

\* the history gains exactly one record, at its front
OneRecordAdded(before, after) ==
    /\ Len(after) = Len(before) + 1
    /\ SubSeq(after, 2, Len(after)) = before

\* what a creation call does to the two histories when `recorded` says
\* whether a successful creation is to leave a record
HistoryStep(recorded) ==
    /\ facade_op'[1] = "create_temp_sms" =>
         /\ email_history' = email_history
         /\ IF SmsCreationSucceeds /\ recorded
            THEN OneRecordAdded(sms_history, sms_history')
            ELSE sms_history' = sms_history
    /\ facade_op'[1] = "create_temp_email" =>
         /\ sms_history' = sms_history
         /\ IF EmailCreationSucceeds /\ recorded
            THEN OneRecordAdded(email_history, email_history')
            ELSE email_history' = email_history

C21_NamespacesDisjoint ==
    [][/\ reg_op'[1] = "register_email_provider" =>
            sms_providers' = sms_providers
       /\ reg_op'[1] = "register_sms_provider" =>
            email_providers' = email_providers
       /\ reg_op'[1] = "get_email_provider" =>
            /\ reg_ret' = last_email_reg'[reg_op'[2]]
            /\ reg_ret' \notin SmsClasses
       /\ reg_op'[1] = "get_sms_provider" =>
            /\ reg_ret' = last_sms_reg'[reg_op'[2]]
            /\ reg_ret' \notin EmailClasses]_vars

\* one name is bound in both kinds, to different classes, and the email
\* lookup of it returns the email class
C21_Witness ==
    /\ reg_op = <<"get_email_provider", "plugin">>
    /\ reg_ret = "PluginEmailProvider"
    /\ sms_providers["plugin"] = "PluginSMSProvider"
    /\ explicit_email # {}
    /\ explicit_sms # {}

(***************************************************************************)
(* Provider setup                                                          *)
(***************************************************************************)
\* a setup field without its help text
WithoutHelpText(fields) ==
    [i \in 1..Len(fields) |->
        [name |-> fields[i].name, display_name |-> fields[i].display_name,
         type |-> fields[i].type, required |-> fields[i].required]]

\* C22: get_setup_fields of a provider class returns exactly one field,
\* named api_key, required and of type password, when the class requires
\* an API key, and the empty list when it does not; apart from the help
\* text, classes with the same requires_api_key get the same result.
C22_SetupFieldsFollowRequiresApiKey ==
    facade_op[1] = "get_setup_fields" =>
        LET cls == facade_op[2]
            fields == facade_ret.value
        IN /\ ~facade_ret.raised
           /\ requires_api_key(cls) =>
                /\ Len(fields) = 1
                /\ fields[1].name = "api_key"
                /\ fields[1].required = TRUE
                /\ fields[1].type = "password"
           /\ ~requires_api_key(cls) => fields = <<>>
           /\ \A other \in EmailClasses \cup SmsClasses :
                requires_api_key(other) = requires_api_key(cls) =>
                    WithoutHelpText(get_setup_fields(other))
                        = WithoutHelpText(fields)

\* the setup fields of an email class that requires a key have been asked
\* for
C22_Witness ==
    /\ facade_op = <<"get_setup_fields", "PluginEmailProvider">>
    /\ Len(facade_ret.value) = 1

\* C25: when 'Set as preferred' is declined in configure_providers_ui, the
\* preferred service of the provider's type is what it was before the
\* dialogue, and a configuration that was saved holds the value typed for
\* the provider's field in the provider's own settings.
C25_PreferredOnlyIfRequested ==
    [][(facade_op'[1] = "configure_providers_ui" /\ ~facade_op'[4]) =>
          /\ IF facade_op'[2] = "email"
             THEN app_config'.preferred_email_service
                      = app_config.preferred_email_service
             ELSE app_config'.preferred_sms_service
                      = app_config.preferred_sms_service
          /\ (/\ facade_ret'.value = "Configuration saved successfully"
              /\ ~Falsy(facade_op'[5])
              /\ requires_api_key(
                     IF facade_op'[2] = "email"
                     THEN email_providers'[facade_op'[3]]
                     ELSE sms_providers'[facade_op'[3]])) =>
                DictGet(app_config'.providers[facade_op'[3]], "api_key", None)
                    = facade_op'[5]]_vars

(***************************************************************************)
(* What wait_for_messages returns                                          *)
(***************************************************************************)
\* wait_for_messages has returned a list that is not empty
MessagesReturned ==
    /\ wait_kind = "messages"
    /\ wait_pc = "returned"
    /\ wait_ret.value # <<>>

\* the messages of a sequence, as a set
Range(messages) == {messages[i] : i \in 1..Len(messages)}

\* C23: a non-empty result of wait_for_messages is the first
\* (current - initial) entries of the poll that made it return, in the
\* poll's order; when the initial poll saw the whole mailbox, these are
\* exactly the messages of that poll that arrived after the call.
C23_ReturnsNewestSlice ==
    MessagesReturned =>
        LET current == email_ret.value
            result == wait_ret.value
        IN /\ Len(result) = Len(current) - initial_count
           /\ \A i \in 1..Len(result) : result[i] = current[i]
           /\ initial_count = Len(mailbox_at_call) =>
                Range(result) = Range(current) \ Range(mailbox_at_call)

\* a wait that started with a message in the mailbox has returned the one
\* that arrived after the call
C23_Witness ==
    /\ MessagesReturned
    /\ initial_count = 1
    /\ mailbox_at_call = <<1>>
    /\ wait_ret.value = <<2>>

\* C24: no message that was in the mailbox when wait_for_messages was
\* called is in its result, whatever the polls answered.
C24_ReturnsOnlyNewMessages ==
    (wait_kind = "messages" /\ wait_pc = "returned") =>
        Range(wait_ret.value) \cap Range(mailbox_at_call) = {}

(***************************************************************************)
(* Allocations of one SMS provider instance                                *)
(***************************************************************************)
\* create_number has returned ok = True
CreateNumberSucceeded(ret) == ~ret.raised /\ ret.value[1] = TRUE

\* C26: whenever create_number returns ok = True, the phone number it
\* returns is a non-empty string and the instance holds a non-empty
\* verification_id.
C26_OkCreateNumberHoldsAllocation ==
    (sms_op[1] = "create_number" /\ CreateNumberSucceeded(sms_ret)) =>
        /\ ~Falsy(sms_ret.value[2])
        /\ ~Falsy(sms_provider.verification_id)

\* C30: a successful create_number on an instance that holds an active
\* verification id overwrites verification_id, phone_number and service
\* with those of the new allocation and leaves the first allocation active;
\* check_sms reads the code of the id the instance holds, and no operation
\* of the instance ends an allocation other than the one it holds.
C30_InstanceTracksOneAllocation ==
    [][/\ (/\ sms_op'[1] = "create_number"
           /\ sms_requests' = 1
           /\ CreateNumberSucceeded(sms_ret')
           /\ sms_pre'.verification_id \in up_active) =>
              /\ sms_provider'.verification_id = sms_resp'.data.id
              /\ sms_provider'.phone_number = sms_resp'.data.number
              /\ sms_provider'.service = sms_op'[2]
              /\ sms_pre'.verification_id \in up_active'
       /\ (/\ sms_op' = <<"check_sms">>
           /\ ~sms_ret'.raised
           /\ ~Falsy(sms_ret'.value)) =>
              sms_ret'.value = up_code[sms_provider.verification_id]
       /\ up_active \ up_active' \subseteq {sms_provider.verification_id}]_vars

\* after two allocations on one instance the second has been cancelled
\* through it and the first is still active
C30_Witness ==
    /\ sms_op = <<"cancel_number">>
    /\ sms_pre.verification_id = "v2"
    /\ sms_provider.verification_id = None
    /\ up_active = {"v1"}

(***************************************************************************)
(* The first lookup of a registry                                          *)
(***************************************************************************)
\* the registry operations that run _ensure_initialized
LookupOps ==
    {"get_email_provider", "get_sms_provider", "get_all_email_providers",
     "get_all_sms_providers", "create_email_provider", "create_sms_provider"}

\* C27: the first lookup of a registry in which the built-in packages
\* import returns the built-in class for a built-in's name, whatever was
\* registered under that name before; a lookup or create call on an
\* initialised registry changes neither mapping.
C27_FirstLookupPrefersBuiltin ==
    [][/\ (/\ ~initialized
           /\ email_import_ok
           /\ reg_op' = <<"get_email_provider", "mail.gw">>) =>
              reg_ret' = "MailGwProvider"
       /\ (initialized /\ reg_op'[1] \in LookupOps) =>
              /\ email_providers' = email_providers
              /\ sms_providers' = sms_providers]_vars

\* a class registered under the built-in's name before the first lookup has
\* been replaced by the built-in, and the lookup returned the built-in
C27_Witness ==
    /\ reg_op = <<"get_email_provider", "mail.gw">>
    /\ reg_ret = "MailGwProvider"
    /\ "AltMailGwProvider" \in explicit_email
    /\ auto_runs = 0

\* a built-in class is bound in the mapping
BuiltinBound(providers, classes) == \E n \in Names : providers[n] \in classes

\* C28: the first lookup marks the registry initialised also when an import
\* of the scan fails, and no later lookup scans again; until
\* auto_discover_providers is called, a failed email import leaves the
\* built-ins of both kinds unregistered and a failed SMS import the SMS
\* built-ins.
C28_FailedDiscoveryIsNotRetried ==
    /\ lazy_scans >= 1 => (initialized /\ lazy_scans = 1)
    /\ (initialized /\ auto_runs = 0 /\ ~email_import_ok) =>
          /\ ~BuiltinBound(email_providers, BuiltinEmailClasses)
          /\ ~BuiltinBound(sms_providers, BuiltinSmsClasses)
    /\ (initialized /\ auto_runs = 0 /\ ~sms_import_ok) =>
          ~BuiltinBound(sms_providers, BuiltinSmsClasses)

\* the email import fails, the SMS package would import, and a lookup after
\* the first one finds no SMS built-in
C28_Witness ==
    /\ ~email_import_ok
    /\ sms_import_ok
    /\ initialized
    /\ auto_runs = 0
    /\ lazy_scans = 1
    /\ reg_op = <<"get_sms_provider", "textverified">>
    /\ reg_ret = None
    /\ explicit_sms # {}

(***************************************************************************)
(* Poll counts of the wait loops                                           *)
(***************************************************************************)
\* ceil(t / i) for i > 0
Ceil(t, i) == (t + i - 1) \div i

\* C29: with timeout <= 0 a wait that returns has made no poll in its loop
\* (wait_for_sms none at all, wait_for_messages its initial one) and
\* returns None or the empty list; with timeout > 0 and polls that take no
\* time the loop makes at most ceil(timeout / check_interval) polls, the
\* first of them at the time of the call, and no sleep comes before the
\* first poll of the loop.
C29_PollCounts ==
    wait_pc # "idle" =>
        /\ (wait_pc = "returned" /\ timeout <= 0) =>
              /\ Len(poll_log) = 0
              /\ IF wait_kind = "sms"
                 THEN wait_ret.value = None
                 ELSE wait_ret.value = <<>>
        /\ (timeout > 0 /\ PollsInstantaneous) =>
              /\ Len(poll_log) <= Ceil(timeout, check_interval)
              /\ poll_log # <<>> => poll_log[1].at = 0
        /\ wait_sleeps <= Len(poll_log)

\* a wait_for_messages with a check_interval that does not divide its
\* timeout has made ceil(timeout / check_interval) polls in its loop
C29_Witness ==
    /\ wait_kind = "messages"
    /\ wait_pc = "returned"
    /\ timeout = 3
    /\ check_interval = 2
    /\ PollsInstantaneous
    /\ Len(poll_log) = 2

====
